---- MODULE Spec2Model ----
(***************************************************************************)
(* Model of the translation orchestration layer of the lyrics translator   *)
(* (src/src/api/translateApi.js): request validation, text chunking and    *)
(* the per-chunk Google -> LibreTranslate fallback of TranslateApi; and of *)
(* src/src/api/lyricsApi.js: withRetry, makeRequest, extractLyrics and the *)
(* submit and retry handlers of LyricsForm.  The failure classification of *)
(* the axios backend client is taken from src/src/App.jsx.                 *)
(*                                                                         *)
(* Strings.  A JavaScript string is modelled run-length encoded: a         *)
(* sequence of runs [c |-> character, n |-> repeat count >= 1], the string *)
(* being the concatenation of c repeated n times.  length, trim, split and *)
(* + are computed on that encoding exactly as JavaScript computes them on  *)
(* the UTF-16 units, so texts of 4000 and 5000 characters (the limits of   *)
(* the code) are modelled at their real size.  Characters: "a" is a word   *)
(* character, "." stands for the sentence punctuation [.!?], " " is the    *)
(* space and "\n" stands for every other white space matched by \s.        *)
(* Input texts are normalised: adjacent runs hold different characters.    *)
(***************************************************************************)
EXTENDS Integers, Sequences, FiniteSets, TLC

VARIABLES
    vText, vTarget, vResult,          \* validateTranslationRequest applied to one input
    sText, sMax, sChunks, sDone,      \* splitTextIntoChunks applied to one input
    googleTranslateKey,               \* TRUE when the Google credential is configured
    pc,                               \* position of the translate request
    rText, rTarget, rSource,          \* arguments of translate
    reqChunks, idx,                   \* the chunks and the index of the current one
    translatedChunks, detectedLang, usedProvider,
    status,                           \* HTTP status of the response being read, 0 if none
    googleError,                      \* the error caught from Google for this chunk
    timers,                           \* timeout timers armed and not yet cleared or fired
    inflight,                         \* provider network requests in flight
    result,                           \* the envelope translate returned
    thrown,                           \* TRUE when translate raised instead of returning
    chunked,                          \* TRUE once splitTextIntoChunks was called
    log,                              \* history of the provider calls of the request
    wMaxRetries, wDelay,              \* arguments of withRetry
    wAttempt,                         \* the loop variable attempt of withRetry
    wPc,                              \* position of the withRetry call
    wLastError,                       \* the variable lastError of withRetry
    wOutcome,                         \* what withRetry returned or raised
    wLog,                             \* history of the withRetry call
    fUrl, fTarget,                    \* formData of LyricsForm
    fLoading, fError, fResult, fStep, fRetryCount,   \* state of LyricsForm
    fLyrics,                          \* lyricsResult.data.lyrics of the pending submit
    fRetrySent,                       \* requests started by Retry since the last Submit
    xPc,                              \* position of the makeRequest call of extractLyrics
    xStatus,                          \* HTTP status of the backend response, 0 if none
    xTimer,                           \* TRUE while the timeout timer of makeRequest is armed
    cClient, cOutcome, cResult,       \* one HTTP call of one client and how the client settles it
    pKey,                             \* googleTranslateKey of the shared TranslateApi instance
    pReq,                             \* local variables of each of two concurrent translate calls
    pSeen,                            \* provider outcomes each of the two calls received
    pOverlap,                         \* TRUE once a call received an outcome while the other was running
    uUrl, uResult,                    \* extractLyrics applied to one URL, up to its request
    gLanguage, gCode,                 \* getLanguageCode applied to one input
    aKey, aPc, aChunks, aIdx,         \* one call of translateAdvanced (src/src/App.jsx)
    aLog, aResult,
    dLanguage,                        \* the language state of the reducer-driven LyricsForm
    dState,                           \* the state its reducer holds
    dPc,                              \* position of its handleSubmit
    dLyrics,                          \* lyricsResp.data of the pending submit
    dLog,                             \* action types dispatched by the last submit
    dCount                            \* submits so far

valVars == <<vText, vTarget, vResult>>
splitVars == <<sText, sMax, sChunks, sDone>>
argVars == <<rText, rTarget, rSource>>
loopVars == <<reqChunks, idx, translatedChunks, detectedLang, usedProvider>>
trVars == <<googleTranslateKey, pc, argVars, loopVars, status, googleError, timers,
            inflight, result, thrown, chunked, log>>
retryVars == <<wMaxRetries, wDelay, wAttempt, wPc, wLastError, wOutcome, wLog>>
formDataVars == <<fUrl, fTarget>>
formStateVars == <<fLoading, fError, fResult, fStep, fRetryCount>>
requestVars == <<xPc, xStatus, xTimer>>
formVars == <<formDataVars, formStateVars, fLyrics, fRetrySent, requestVars>>
classVars == <<cClient, cOutcome, cResult>>
pairVars == <<pKey, pReq, pSeen, pOverlap>>
urlVars == <<uUrl, uResult>>
langVars == <<gLanguage, gCode>>
advVars == <<aKey, aPc, aChunks, aIdx, aLog, aResult>>
redVars == <<dLanguage, dState, dPc, dLyrics, dLog, dCount>>
extVars == <<retryVars, formVars, classVars, pairVars, urlVars, langVars, advVars, redVars>>
notRetryVars == <<valVars, splitVars, trVars, formVars, classVars, pairVars, urlVars, langVars, advVars, redVars>>
notFormVars == <<valVars, splitVars, retryVars, classVars, pairVars, urlVars, langVars, advVars, redVars>>
notClassVars == <<valVars, splitVars, trVars, retryVars, formVars, pairVars, urlVars, langVars, advVars, redVars>>
notPairVars == <<valVars, splitVars, trVars, retryVars, formVars, classVars, urlVars, langVars, advVars, redVars>>
notUrlVars == <<valVars, splitVars, trVars, retryVars, formVars, classVars, pairVars, langVars, advVars, redVars>>
notLangVars == <<valVars, splitVars, trVars, retryVars, formVars, classVars, pairVars, urlVars, advVars, redVars>>
vars == <<valVars, splitVars, trVars, extVars>>

----------------------------------------------------------------------------
(* Run-length encoded strings *)

Run(c, n) == [c |-> c, n |-> n]

IsWS(c) == c \in {" ", "\n"}

IsPunct(c) == c = "."

RECURSIVE StrLen(_)
StrLen(s) == IF s = <<>> THEN 0 ELSE Head(s).n + StrLen(Tail(s))

RECURSIVE TrimStart(_)
TrimStart(s) ==
    IF s # <<>> /\ IsWS(Head(s).c) THEN TrimStart(Tail(s)) ELSE s

RECURSIVE TrimEnd(_)
TrimEnd(s) ==
    IF s # <<>> /\ IsWS(s[Len(s)].c) THEN TrimEnd(SubSeq(s, 1, Len(s) - 1)) ELSE s

Trim(s) == TrimEnd(TrimStart(s))

Space == <<Run(" ", 1)>>

\* All normalised strings of at most k runs drawn from the pool of runs.
RECURSIVE StringsUpTo(_, _)
StringsUpTo(pool, k) ==
    IF k = 0 THEN {<<>>}
    ELSE LET shorter == StringsUpTo(pool, k - 1)
         IN shorter \cup
            {Append(s, r) : s \in {t \in shorter : Len(t) = k - 1}, r \in pool}

Normalised(s) == \A i \in 1..(Len(s) - 1) : s[i].c # s[i + 1].c

----------------------------------------------------------------------------
(* JavaScript values passed as text and as language *)

JSUndefined == [t |-> "undefined", n |-> 0, s |-> <<>>]
JSNull == [t |-> "null", n |-> 0, s |-> <<>>]
JSNumber(k) == [t |-> "number", n |-> k, s |-> <<>>]
JSObject == [t |-> "object", n |-> 0, s |-> <<>>]
JSString(s) == [t |-> "string", n |-> 0, s |-> s]

\* !text
Falsy(v) ==
    \/ v.t \in {"undefined", "null"}
    \/ v.t = "number" /\ v.n = 0
    \/ v.t = "string" /\ v.s = <<>>

LangUndefined == [t |-> "undefined", s |-> ""]
LangString(name) == [t |-> "string", s |-> name]
LangNumber == [t |-> "number", s |-> ""]

\* !targetLang (the number passed is non-zero)
LangFalsy(l) == l.t = "undefined" \/ (l.t = "string" /\ l.s = "")

----------------------------------------------------------------------------
(* TranslateApi: configuration and validateTranslationRequest *)

maxTextLength == 5000

\* Mutant: the length check made before the empty-text check.
validateLengthFirst(text, targetLang) ==
    IF Falsy(text) \/ text.t # "string" THEN "MISSING_TEXT"
    ELSE IF StrLen(text.s) > maxTextLength THEN "TEXT_TOO_LONG"
    ELSE IF StrLen(Trim(text.s)) = 0 THEN "EMPTY_TEXT"
    ELSE IF LangFalsy(targetLang) THEN "MISSING_TARGET_LANGUAGE"
    ELSE "ok"

\* Mutant: the length limit applied to the trimmed text.
validateTrimmedLength(text, targetLang) ==
    IF Falsy(text) \/ text.t # "string" THEN "MISSING_TEXT"
    ELSE IF StrLen(Trim(text.s)) = 0 THEN "EMPTY_TEXT"
    ELSE IF StrLen(Trim(text.s)) > maxTextLength THEN "TEXT_TOO_LONG"
    ELSE IF LangFalsy(targetLang) THEN "MISSING_TARGET_LANGUAGE"
    ELSE "ok"

\* The kind of the TranslationError thrown, or "ok" when the call returns.
validateTranslationRequest(text, targetLang) ==
    IF Falsy(text) \/ text.t # "string" THEN "MISSING_TEXT"
    ELSE IF StrLen(Trim(text.s)) = 0 THEN "EMPTY_TEXT"
    ELSE IF StrLen(text.s) > maxTextLength THEN "TEXT_TOO_LONG"
    ELSE IF LangFalsy(targetLang) THEN "MISSING_TARGET_LANGUAGE"
    ELSE "ok"

----------------------------------------------------------------------------
(* TranslateApi.splitTextIntoChunks *)

\* The index of the first run at or after i that is not white space.
RECURSIVE SkipWS(_, _)
SkipWS(s, i) ==
    IF i <= Len(s) /\ IsWS(s[i].c) THEN SkipWS(s, i + 1) ELSE i

\* text.split(/(?<=[.!?])\s+/): a separator is a maximal white-space run
\* that directly follows a punctuation character.
RECURSIVE SentSplit(_, _, _, _)
SentSplit(s, i, cur, acc) ==
    IF i > Len(s) THEN Append(acc, cur)
    ELSE IF IsWS(s[i].c) /\ i > 1 /\ IsPunct(s[i - 1].c)
         THEN SentSplit(s, SkipWS(s, i), <<>>, Append(acc, cur))
         ELSE SentSplit(s, i + 1, Append(cur, s[i]), acc)

SplitSentences(s) == SentSplit(s, 1, <<>>, <<>>)

\* sentence.split(' '): every single space separates, so a run of n spaces
\* yields n - 1 empty words between its neighbours.
RECURSIVE SpaceSplit(_, _, _, _)
SpaceSplit(s, i, cur, acc) ==
    IF i > Len(s) THEN Append(acc, cur)
    ELSE IF s[i].c = " "
         THEN SpaceSplit(s, i + 1, <<>>,
                         Append(acc, cur) \o [k \in 1..(s[i].n - 1) |-> <<>>])
         ELSE SpaceSplit(s, i + 1, Append(cur, s[i]), acc)

SplitWords(s) == SpaceSplit(s, 1, <<>>, <<>>)

\* (a + b).length <= maxChunkSize, the test of both packing loops.
FitsChunk(a, b, maxChunkSize) == StrLen(a) + StrLen(b) <= maxChunkSize

\* a += (a ? ' ' : '') + b
AppendPiece(a, b) == a \o (IF a # <<>> THEN Space ELSE <<>>) \o b

\* Mutant: the word loop forgets to push the chunk it closes.
RECURSIVE PackWordsDropping(_, _, _, _, _)
PackWordsDropping(words, i, maxChunkSize, wordChunk, chunks) ==
    IF i > Len(words) THEN [chunks |-> chunks, wordChunk |-> wordChunk]
    ELSE IF FitsChunk(wordChunk, words[i], maxChunkSize)
         THEN PackWordsDropping(words, i + 1, maxChunkSize,
                                AppendPiece(wordChunk, words[i]), chunks)
         ELSE PackWordsDropping(words, i + 1, maxChunkSize, words[i], chunks)

\* The loop over the words of one long sentence.
RECURSIVE PackWords(_, _, _, _, _)
PackWords(words, i, maxChunkSize, wordChunk, chunks) ==
    IF i > Len(words) THEN [chunks |-> chunks, wordChunk |-> wordChunk]
    ELSE IF FitsChunk(wordChunk, words[i], maxChunkSize)
         THEN PackWords(words, i + 1, maxChunkSize,
                        AppendPiece(wordChunk, words[i]), chunks)
         ELSE PackWords(words, i + 1, maxChunkSize, words[i],
                        IF wordChunk # <<>> THEN Append(chunks, wordChunk)
                        ELSE chunks)

\* The loop over the sentences.
RECURSIVE PackSentences(_, _, _, _, _)
PackSentences(sentences, i, maxChunkSize, currentChunk, chunks) ==
    IF i > Len(sentences) THEN [chunks |-> chunks, currentChunk |-> currentChunk]
    ELSE IF FitsChunk(currentChunk, sentences[i], maxChunkSize)
         THEN PackSentences(sentences, i + 1, maxChunkSize,
                            AppendPiece(currentChunk, sentences[i]), chunks)
         ELSE IF currentChunk # <<>>
              THEN PackSentences(sentences, i + 1, maxChunkSize, sentences[i],
                                 Append(chunks, currentChunk))
              ELSE LET w == PackWords(SplitWords(sentences[i]), 1, maxChunkSize,
                                      <<>>, chunks)
                   IN PackSentences(sentences, i + 1, maxChunkSize,
                                    IF w.wordChunk # <<>> THEN w.wordChunk
                                    ELSE currentChunk,
                                    w.chunks)

\* Mutant: the identity case tested with < instead of <=.
IsSingleChunkStrict(text, maxChunkSize) == StrLen(text) < maxChunkSize

\* text.length <= maxChunkSize, the test of the identity case.
IsSingleChunk(text, maxChunkSize) == StrLen(text) <= maxChunkSize

splitTextIntoChunks(text, maxChunkSize) ==
    IF IsSingleChunk(text, maxChunkSize) THEN <<text>>
    ELSE LET p == PackSentences(SplitSentences(text), 1, maxChunkSize, <<>>, <<>>)
         IN IF p.currentChunk # <<>> THEN Append(p.chunks, p.currentChunk)
            ELSE p.chunks

DefaultMaxChunkSize == 4000

\* chunks.join(' ')
RECURSIVE JoinSpace(_)
JoinSpace(parts) ==
    IF parts = <<>> THEN <<>>
    ELSE IF Len(parts) = 1 THEN parts[1]
    ELSE parts[1] \o Space \o JoinSpace(Tail(parts))

----------------------------------------------------------------------------
(* TranslateApi.getLanguageCode *)

\* A language is a string, written as the sequence of its characters.
\* String.prototype.toLowerCase on one character and on a string.
LowerChar(c) ==
    CASE c = "A" -> "a" [] c = "B" -> "b" [] c = "C" -> "c" [] c = "D" -> "d"
      [] c = "E" -> "e" [] c = "F" -> "f" [] c = "G" -> "g" [] c = "H" -> "h"
      [] c = "I" -> "i" [] c = "J" -> "j" [] c = "K" -> "k" [] c = "L" -> "l"
      [] c = "M" -> "m" [] c = "N" -> "n" [] c = "O" -> "o" [] c = "P" -> "p"
      [] c = "Q" -> "q" [] c = "R" -> "r" [] c = "S" -> "s" [] c = "T" -> "t"
      [] c = "U" -> "u" [] c = "V" -> "v" [] c = "W" -> "w" [] c = "X" -> "x"
      [] c = "Y" -> "y" [] c = "Z" -> "z"
      [] OTHER -> c

ToLowerCase(language) == [i \in 1..Len(language) |-> LowerChar(language[i])]

\* The entries of the object literal langMap: key and value.
LangEntries ==
    {
     <<<<"s", "i", "n", "h", "a", "l", "a">>, <<"s", "i">>>>, <<<<"s", "i">>, <<"s", "i">>>>,
     <<<<"t", "a", "m", "i", "l">>, <<"t", "a">>>>, <<<<"t", "a">>, <<"t", "a">>>>,
     <<<<"e", "n", "g", "l", "i", "s", "h">>, <<"e", "n">>>>, <<<<"e", "n">>, <<"e", "n">>>>,
     <<<<"h", "i", "n", "d", "i">>, <<"h", "i">>>>, <<<<"h", "i">>, <<"h", "i">>>>,
     <<<<"s", "p", "a", "n", "i", "s", "h">>, <<"e", "s">>>>, <<<<"e", "s">>, <<"e", "s">>>>,
     <<<<"f", "r", "e", "n", "c", "h">>, <<"f", "r">>>>, <<<<"f", "r">>, <<"f", "r">>>>,
     <<<<"g", "e", "r", "m", "a", "n">>, <<"d", "e">>>>, <<<<"d", "e">>, <<"d", "e">>>>,
     <<<<"i", "t", "a", "l", "i", "a", "n">>, <<"i", "t">>>>, <<<<"i", "t">>, <<"i", "t">>>>,
     <<<<"p", "o", "r", "t", "u", "g", "u", "e", "s", "e">>, <<"p", "t">>>>, <<<<"p", "t">>, <<"p", "t">>>>,
     <<<<"r", "u", "s", "s", "i", "a", "n">>, <<"r", "u">>>>, <<<<"r", "u">>, <<"r", "u">>>>,
     <<<<"j", "a", "p", "a", "n", "e", "s", "e">>, <<"j", "a">>>>, <<<<"j", "a">>, <<"j", "a">>>>,
     <<<<"k", "o", "r", "e", "a", "n">>, <<"k", "o">>>>, <<<<"k", "o">>, <<"k", "o">>>>,
     <<<<"c", "h", "i", "n", "e", "s", "e">>, <<"z", "h">>>>, <<<<"z", "h">>, <<"z", "h">>>>,
     <<<<"a", "r", "a", "b", "i", "c">>, <<"a", "r">>>>, <<<<"a", "r">>, <<"a", "r">>>>
    }

langMap ==
    [key \in {e[1] : e \in LangEntries} |-> (CHOOSE e \in LangEntries : e[1] = key)[2]]

\* The property langMap[key] of the object literal: an own entry, a property
\* inherited from Object.prototype (the keys without an upper-case letter
\* are constructor and __proto__), or undefined.
LangMapGet(key) ==
    IF key \in DOMAIN langMap THEN [t |-> "string", s |-> langMap[key]]
    ELSE IF key = <<"c", "o", "n", "s", "t", "r", "u", "c", "t", "o", "r">>
    THEN [t |-> "function", s |-> <<>>]
    ELSE IF key = <<"_", "_", "p", "r", "o", "t", "o", "_", "_">>
    THEN [t |-> "object", s |-> <<>>]
    ELSE [t |-> "undefined", s |-> <<>>]

\* langMap[language.toLowerCase()] || language.toLowerCase()
getLanguageCode(language) ==
    LET lower == ToLowerCase(language)
        entry == LangMapGet(lower)
    IN IF entry.t = "undefined" THEN [t |-> "string", s |-> lower] ELSE entry

\* The characters of the language names given to translate.
Spell(name) ==
    CASE name = "Sinhala" -> <<"S", "i", "n", "h", "a", "l", "a">>
      [] name = "si" -> <<"s", "i">>
      [] name = "en" -> <<"e", "n">>
      [] name = "" -> <<>>

----------------------------------------------------------------------------
(* Errors and result envelopes *)

\* new TranslationError(message, type, statusCode = null); 0 stands for null.
TranslationError(message, type, statusCode) ==
    [message |-> message, type |-> type, statusCode |-> statusCode]

ProviderText == "text of the provider's error body"

ValidationError(kind) ==
    CASE kind = "MISSING_TEXT" ->
            TranslationError("Text is required for translation", kind, 0)
      [] kind = "EMPTY_TEXT" ->
            TranslationError("Text cannot be empty", kind, 0)
      [] kind = "TEXT_TOO_LONG" ->
            TranslationError("Text too long. Maximum 5000 characters allowed", kind, 0)
      [] kind = "MISSING_TARGET_LANGUAGE" ->
            TranslationError("Target language is required", kind, 0)

\* Mutant: the error of the fallback carries an HTTP status.
AllServicesFailedWithStatus ==
    [message |-> "All translation services are currently unavailable",
     type |-> "ALL_SERVICES_FAILED", statusCode |-> 503]

AllServicesFailed ==
    TranslationError("All translation services are currently unavailable",
                     "ALL_SERVICES_FAILED", 0)

NoResult == [pending |-> TRUE]

\* Mutant: the catch of translate reports one generic kind for every error.
FailureEnvelopeGeneric(error) ==
    [success |-> FALSE,
     error |-> [message |-> error.message, type |-> "TRANSLATION_ERROR",
                statusCode |-> error.statusCode]]

\* The object returned by the catch of translate.
FailureEnvelope(error) ==
    [success |-> FALSE,
     error |-> [message |-> error.message, type |-> error.type,
                statusCode |-> error.statusCode]]

\* Mutant: the envelope carries the translation of the last chunk only.
SuccessEnvelopeLastOnly(text, translated, detected, target, provider, chunkList) ==
    [success |-> TRUE,
     data |-> [originalText |-> text,
               translatedText |-> IF translated = <<>> THEN <<>>
                                  ELSE translated[Len(translated)],
               sourceLanguage |-> detected,
               targetLanguage |-> getLanguageCode(Spell(target.s)),
               provider |-> provider,
               chunkCount |-> Len(chunkList)]]

\* The object returned after the loop over the chunks.
SuccessEnvelope(text, translated, detected, target, provider, chunkList) ==
    [success |-> TRUE,
     data |-> [originalText |-> text,
               translatedText |-> JoinSpace(translated),
               sourceLanguage |-> detected,
               targetLanguage |-> getLanguageCode(Spell(target.s)),
               provider |-> provider,
               chunkCount |-> Len(chunkList)]]

\* Mutant: the catch of translate handles validation errors only and
\* re-raises the others.
CatchValidationOnly(error) ==
    IF error.type = "ALL_SERVICES_FAILED"
    THEN [thrown |-> TRUE, result |-> NoResult]
    ELSE [thrown |-> FALSE, result |-> FailureEnvelope(error)]

\* The outcome of translate when an error reaches its catch.
CatchError(error) == [thrown |-> FALSE, result |-> FailureEnvelope(error)]

----------------------------------------------------------------------------
(* Provider responses *)

OkStatus(code) == code >= 200 /\ code <= 299

Statuses == {200, 403, 429, 500}

RespTexts == {<<Run("x", 1)>>, <<Run("y", 1)>>}

DetectedLangs == {"", "en", "es"}

\* A response body: unreadable (response.json() rejects), the JSON value
\* null, or a JSON object with an optional translated text, detected language
\* and error text.  The translated text is a string, or (array) the empty
\* array []: a value that is truthy and that join converts to "".
BodyUnreadable ==
    [readable |-> FALSE, null |-> FALSE, text |-> <<>>, detected |-> "", error |-> FALSE,
     array |-> FALSE]
BodyNull ==
    [readable |-> TRUE, null |-> TRUE, text |-> <<>>, detected |-> "", error |-> FALSE,
     array |-> FALSE]
BodyJson(text, detected, error) ==
    [readable |-> TRUE, null |-> FALSE, text |-> text, detected |-> detected,
     error |-> error, array |-> FALSE]
BodyArrayText ==
    [readable |-> TRUE, null |-> FALSE, text |-> <<>>, detected |-> "", error |-> FALSE,
     array |-> TRUE]

Bodies ==
    {BodyUnreadable, BodyNull, BodyJson(<<>>, "", FALSE), BodyJson(<<>>, "", TRUE),
     BodyArrayText}
    \cup {BodyJson(t, d, FALSE) : t \in RespTexts, d \in DetectedLangs}

\* !data.translatedText and !data.data?.translations?.[0]?.translatedText
MissingText(body) == body.text = <<>> /\ ~body.array

\* sourceLanguage = 'auto' default of translate and of the provider clients.
SourceOrAuto(source) == IF source.t = "undefined" THEN "auto" ELSE source.s

TimeoutError == TranslationError("Translation timeout. Please try again", "TIMEOUT", 0)

GoogleUnavailable ==
    TranslationError("Google Translate service unavailable", "SERVICE_UNAVAILABLE", 0)

LibreUnavailable ==
    TranslationError("LibreTranslate service unavailable", "SERVICE_UNAVAILABLE", 0)

InvalidResponse(provider) ==
    TranslationError(IF provider = "google"
                     THEN "Invalid response from Google Translate"
                     ELSE "Invalid response from LibreTranslate",
                     "INVALID_RESPONSE", 0)

\* The error thrown by translateWithGoogle for a response that is not ok.  An
\* unreadable body is replaced by {}; reading errorData.error of the body
\* null raises a TypeError, which the catch maps to SERVICE_UNAVAILABLE.
GoogleHttpError(code, body) ==
    IF code = 403
    THEN TranslationError("Google Translate quota exceeded or invalid API key",
                          "QUOTA_EXCEEDED", 403)
    ELSE IF body.readable /\ body.null THEN GoogleUnavailable
    ELSE TranslationError(IF body.readable /\ body.error THEN ProviderText
                          ELSE "Google Translate API error",
                          "GOOGLE_API_ERROR", code)

\* The error thrown by translateWithLibre for a response that is not ok.
LibreHttpError(code, body) ==
    IF code = 429
    THEN TranslationError("Translation rate limit exceeded", "RATE_LIMITED", 429)
    ELSE IF body.readable /\ body.null THEN LibreUnavailable
    ELSE TranslationError(IF body.readable /\ body.error THEN ProviderText
                          ELSE "LibreTranslate API error",
                          "LIBRE_API_ERROR", code)

\* The value a provider client returns for a body holding a translation.
ChunkResult(body, source, provider) ==
    [translatedText |-> body.text,
     detectedLanguage |-> IF body.detected # "" THEN body.detected ELSE source,
     provider |-> provider]

----------------------------------------------------------------------------
(* Inputs *)

MaxValRuns == 3
MaxSplitRuns == 5
MaxSplitSize == 4

\* Texts around the 5000-character limit, for the validator.
ValRunPool == {Run(c, n) : c \in {"a", " ", "\n"}, n \in {1, 4999, 5000, 5001}}
ValTexts ==
    {JSUndefined, JSNull, JSNumber(0), JSNumber(42), JSObject} \cup
    {JSString(s) : s \in {t \in StringsUpTo(ValRunPool, MaxValRuns) : Normalised(t)}}
ValTargets ==
    {LangUndefined, LangString(""), LangString("si"), LangString("Sinhala"), LangNumber}

\* Short texts with small chunk sizes, and texts around the default chunk
\* size of 4000 characters, for the chunker.
SplitRunPool ==
    {Run("a", 1), Run("a", 2), Run(".", 1), Run(" ", 1), Run(" ", 2), Run("\n", 1)}
BigRunPool ==
    {Run("a", 1), Run("a", 3999), Run("a", 4001), Run(".", 1), Run(" ", 1)}
SplitInputs ==
    {<<t, m>> : t \in {u \in StringsUpTo(SplitRunPool, MaxSplitRuns) : Normalised(u)},
                m \in 1..MaxSplitSize}
    \cup
    {<<t, DefaultMaxChunkSize>> :
        t \in {u \in StringsUpTo(BigRunPool, MaxSplitRuns - 1) : Normalised(u)}}

\* Requests given to translate: texts the validator rejects, a text of one
\* chunk, a text of 5000 characters cut into two chunks and a text of 4005
\* characters cut into three.
OneChunkText == <<Run("a", 1), Run(".", 1), Run("\n", 1), Run("a", 2)>>
TwoChunkText == <<Run("a", 4000), Run(" ", 1), Run("a", 999)>>
ThreeChunkText ==
    <<Run("a", 1), Run(".", 1), Run(" ", 1), Run("a", 3998), Run(".", 1),
      Run(" ", 1), Run("a", 2)>>
TranslateTexts ==
    {JSUndefined, JSNumber(42), JSString(<<>>), JSString(<<Run(" ", 2)>>),
     JSString(<<Run("a", 5001)>>),
     JSString(OneChunkText), JSString(TwoChunkText), JSString(ThreeChunkText)}
TranslateTargets == {LangUndefined, LangString("Sinhala"), LangNumber}
TranslateSources == {LangUndefined, LangString("en")}

NoTranslate ==
    /\ googleTranslateKey = FALSE
    /\ pc = "unused"
    /\ rText = JSUndefined /\ rTarget = LangUndefined /\ rSource = LangUndefined
    /\ reqChunks = <<>> /\ idx = 0
    /\ translatedChunks = <<>> /\ detectedLang = "" /\ usedProvider = ""
    /\ status = 0
    /\ googleError = TranslationError("", "", 0)
    /\ timers = {} /\ inflight = {}
    /\ result = NoResult
    /\ thrown = FALSE /\ chunked = FALSE
    /\ log = <<>>

NoValidate == vText = JSUndefined /\ vTarget = LangUndefined /\ vResult = "unused"
NoSplit == sText = <<>> /\ sMax = 0 /\ sChunks = <<>> /\ sDone = FALSE

\* Values handled by withRetry.  An error object is known by its type
\* property and by the invocation that raised it ("" is an error without a
\* type property); RetryUndefined is the JavaScript value undefined.
OpError(type, at) == [type |-> type, at |-> at]
RetryUndefined == OpError("undefined", 0)
RetryPending == [how |-> "pending", v |-> RetryUndefined]

NoRetry ==
    /\ wMaxRetries = 0 /\ wDelay = 0 /\ wAttempt = 0
    /\ wPc = "unused"
    /\ wLastError = RetryUndefined
    /\ wOutcome = RetryPending
    /\ wLog = <<>>

\* The state of LyricsForm before the first event (useState initial values).
FormIdle ==
    /\ fLoading = FALSE
    /\ fError = <<>>
    /\ fResult = <<>>
    /\ fStep = "idle"
    /\ fRetryCount = 0

NoForm ==
    /\ fUrl = <<>> /\ fTarget = ""
    /\ FormIdle
    /\ fLyrics = <<>>
    /\ fRetrySent = 0
    /\ xPc = "unused" /\ xStatus = 0 /\ xTimer = FALSE

\* How a client call settles: not yet, with a value, or with a classified error.
ClassPending == [done |-> FALSE, ok |-> FALSE, error |-> [message |-> "", type |-> "", statusCode |-> 0]]

NoClass == cClient = "" /\ cOutcome = <<>> /\ cResult = ClassPending

NoPair == pKey = FALSE /\ pReq = <<>> /\ pSeen = <<>> /\ pOverlap = FALSE
NoUrl == uUrl = <<>> /\ uResult = <<>>
NoLang == gLanguage = "" /\ gCode = ""
NoAdv ==
    /\ aKey = FALSE /\ aPc = "unused" /\ aChunks = 0 /\ aIdx = 0
    /\ aLog = <<>> /\ aResult = NoResult
NoRed ==
    /\ dLanguage = "en" /\ dPc = "unused" /\ dLyrics = <<>>
    /\ dState = [loading |-> FALSE, error |-> <<>>, result |-> <<>>]
    /\ dLog = <<>> /\ dCount = 0

NoOthers == NoPair /\ NoUrl /\ NoLang /\ NoAdv /\ NoRed

NoExt == NoRetry /\ NoForm /\ NoClass /\ NoOthers

----------------------------------------------------------------------------
(* validateTranslationRequest applied to every input *)

InitValidate ==
    /\ vText \in ValTexts
    /\ vTarget \in ValTargets
    /\ vResult = "pending"
    /\ NoSplit
    /\ NoTranslate
    /\ NoExt

Validate ==
    /\ vResult = "pending"
    /\ vResult' = validateTranslationRequest(vText, vTarget)
    /\ UNCHANGED <<vText, vTarget, splitVars, trVars, extVars>>

SpecValidate == InitValidate /\ [][Validate]_vars

----------------------------------------------------------------------------
(* splitTextIntoChunks applied to every input *)

InitSplit ==
    /\ \E in \in SplitInputs : sText = in[1] /\ sMax = in[2]
    /\ sChunks = <<>>
    /\ sDone = FALSE
    /\ NoValidate
    /\ NoTranslate
    /\ NoExt

Split ==
    /\ ~sDone
    /\ sChunks' = splitTextIntoChunks(sText, sMax)
    /\ sDone' = TRUE
    /\ UNCHANGED <<sText, sMax, valVars, trVars, extVars>>

SpecSplit == InitSplit /\ [][Split]_vars

----------------------------------------------------------------------------
(* TranslateApi.translate: one request, from the call to the envelope *)

Call(i, provider) == [chunk |-> i, provider |-> provider]

\* An entry of the history: "call" when a provider client is invoked,
\* "fetch" when it sends its network request, "ok" or "fail" when it settles.
Event(i, provider, ev, text) ==
    [chunk |-> i, provider |-> provider, ev |-> ev, text |-> text]

\* Mutant: the requests of all remaining chunks are sent at once.
RequestsSentEagerly(i, provider) ==
    {Call(j, provider) : j \in i..Len(reqChunks)}

\* The network requests one provider call sends: the single fetch of the
\* client, for the current chunk.
RequestsSent(i, provider) == {Call(i, provider)}

\* Mutant: the fallback branch records the tag of the first provider.
LibreTagCopied == "google"

\* usedProvider = 'libretranslate'
LibreTag == "libretranslate"

\* Mutant: the error of the last provider is passed on as it is.
AfterLibreFailureRaw(libreError) == CatchError(libreError)

\* The catch of the fallback raises ALL_SERVICES_FAILED, which the catch of
\* translate turns into the envelope.
AfterLibreFailure(libreError) == CatchError(AllServicesFailed)

InitTranslate ==
    /\ googleTranslateKey \in BOOLEAN
    /\ pc = "idle"
    /\ rText = JSUndefined /\ rTarget = LangUndefined /\ rSource = LangUndefined
    /\ reqChunks = <<>> /\ idx = 0
    /\ translatedChunks = <<>> /\ detectedLang = "" /\ usedProvider = ""
    /\ status = 0
    /\ googleError = TranslationError("", "", 0)
    /\ timers = {} /\ inflight = {}
    /\ result = NoResult
    /\ thrown = FALSE /\ chunked = FALSE
    /\ log = <<>>
    /\ NoValidate
    /\ NoSplit
    /\ NoExt

\* The synchronous part of translate(text, target, source): validation,
\* chunking and the entry of the loop.
TranslateCall(text, target, source) ==
        /\ pc = "idle"
        /\ rText' = text
        /\ rTarget' = target
        /\ rSource' = source
        /\ LET kind == validateTranslationRequest(text, target)
           IN IF kind # "ok"
              THEN /\ result' = CatchError(ValidationError(kind)).result
                   /\ thrown' = CatchError(ValidationError(kind)).thrown
                   /\ pc' = "done"
                   /\ UNCHANGED <<loopVars, chunked>>
              ELSE LET cs == splitTextIntoChunks(text.s, DefaultMaxChunkSize)
                   IN /\ reqChunks' = cs
                      /\ chunked' = TRUE
                      /\ idx' = 1
                      /\ translatedChunks' = <<>>
                      /\ detectedLang' = SourceOrAuto(source)
                      /\ usedProvider' = ""
                      /\ IF cs # <<>>
                         THEN pc' = "google_start" /\ UNCHANGED <<result, thrown>>
                         ELSE /\ pc' = "done"
                              /\ result' = SuccessEnvelope(text.s, <<>>,
                                              SourceOrAuto(source), target, "", cs)
                              /\ thrown' = FALSE
        /\ UNCHANGED <<googleTranslateKey, status, googleError, timers, inflight, log>>

\* translate is called with a request of the caller's choice.
Translate ==
    /\ \E text \in TranslateTexts, target \in TranslateTargets,
          source \in TranslateSources : TranslateCall(text, target, source)
    /\ UNCHANGED <<valVars, splitVars, extVars>>

\* Mutant: the tag of the provider of the first chunk is kept.
UsedProviderFirst(previous, provider) ==
    IF previous = "" THEN provider ELSE previous

\* usedProvider = 'google' and usedProvider = 'libretranslate': the tag is
\* assigned anew for every chunk.
UsedProviderAfter(previous, provider) == provider

\* The chunk was translated: lines 324-330, then the next chunk or the return.
ChunkTranslated(chunkResult, provider) ==
    LET translated == Append(translatedChunks, chunkResult.translatedText)
        detected == IF detectedLang = "auto" /\ chunkResult.detectedLanguage # ""
                    THEN chunkResult.detectedLanguage
                    ELSE detectedLang
        used == UsedProviderAfter(usedProvider, provider)
    IN /\ translatedChunks' = translated
       /\ detectedLang' = detected
       /\ usedProvider' = used
       /\ idx' = idx + 1
       /\ IF idx + 1 <= Len(reqChunks)
          THEN pc' = "google_start" /\ UNCHANGED <<result, thrown>>
          ELSE /\ pc' = "done"
               /\ result' = SuccessEnvelope(rText.s, translated, detected, rTarget,
                                            used, reqChunks)
               /\ thrown' = FALSE
       /\ UNCHANGED <<reqChunks, googleError>>

\* translateWithGoogle raised: the catch of line 308 falls back to Libre.
GoogleFailed(error) ==
    /\ googleError' = error
    /\ pc' = "libre_start"
    /\ UNCHANGED <<loopVars, result, thrown>>

\* translateWithLibre raised: lines 315-321, then the catch of translate.
LibreFailed(error) ==
    /\ result' = AfterLibreFailure(error).result
    /\ thrown' = AfterLibreFailure(error).thrown
    /\ pc' = "done"
    /\ UNCHANGED <<loopVars, googleError>>

\* Mutant: the missing key is reported by the catch-all of the client.
KeyMissingAsUnavailable == GoogleUnavailable

\* The error raised by the test of this.googleTranslateKey.
KeyMissingError ==
    TranslationError("Google Translate API key not configured", "API_KEY_MISSING", 0)

\* Mutant: the timer is left armed.
clearTimeoutOmitted(pending, timeoutId) == pending

\* clearTimeout(timeoutId) on the set of armed timers.
clearTimeout(pending, timeoutId) == pending \ {timeoutId}

\* translateWithGoogle is called for the current chunk: it raises
\* API_KEY_MISSING without a timer or a request when the key is absent;
\* getLanguageCode raises on a target that is no string while the request
\* is built, which the catch maps to SERVICE_UNAVAILABLE after clearing the
\* timer; otherwise the timer is armed and the request sent.
GoogleStart ==
    /\ pc = "google_start"
    /\ IF ~googleTranslateKey
       THEN /\ GoogleFailed(KeyMissingError)
            /\ log' = log \o <<Event(idx, "google", "call", <<>>),
                               Event(idx, "google", "fail", <<>>)>>
            /\ UNCHANGED <<timers, inflight>>
       ELSE IF rTarget.t # "string"
            THEN /\ GoogleFailed(GoogleUnavailable)
                 /\ log' = log \o <<Event(idx, "google", "call", <<>>),
                                    Event(idx, "google", "fail", <<>>)>>
                 /\ UNCHANGED <<timers, inflight>>
            ELSE /\ timers' = timers \cup {Call(idx, "google")}
                 /\ inflight' = inflight \cup RequestsSent(idx, "google")
                 /\ log' = log \o <<Event(idx, "google", "call", <<>>),
                                    Event(idx, "google", "fetch", <<>>)>>
                 /\ pc' = "google_fetch"
                 /\ UNCHANGED <<loopVars, googleError, result, thrown>>
    /\ UNCHANGED <<googleTranslateKey, argVars, status, chunked, valVars, splitVars, extVars>>

\* fetch resolves with a response: the timer is cleared and the body is read.
GoogleResponds ==
    /\ pc = "google_fetch"
    /\ \E code \in Statuses : status' = code
    /\ timers' = clearTimeout(timers, Call(idx, "google"))
    /\ pc' = "google_body"
    /\ UNCHANGED <<googleTranslateKey, argVars, loopVars, googleError, inflight,
                   result, thrown, chunked, log, valVars, splitVars, extVars>>

\* fetch rejects because no response was received.
GoogleNetworkError ==
    /\ pc = "google_fetch"
    /\ timers' = clearTimeout(timers, Call(idx, "google"))
    /\ inflight' = inflight \ {Call(idx, "google")}
    /\ log' = Append(log, Event(idx, "google", "fail", <<>>))
    /\ GoogleFailed(GoogleUnavailable)
    /\ UNCHANGED <<googleTranslateKey, argVars, status, chunked, valVars, splitVars, extVars>>

\* The timer fires while fetch is pending: the request is aborted.
GoogleTimeout ==
    /\ pc = "google_fetch"
    /\ Call(idx, "google") \in timers
    /\ timers' = timers \ {Call(idx, "google")}
    /\ inflight' = inflight \ {Call(idx, "google")}
    /\ log' = Append(log, Event(idx, "google", "fail", <<>>))
    /\ GoogleFailed(TimeoutError)
    /\ UNCHANGED <<googleTranslateKey, argVars, status, chunked, valVars, splitVars, extVars>>

\* response.json() settles: lines 160-191 and the catch of lines 193-211.
GoogleBody ==
    /\ pc = "google_body"
    /\ \E body \in Bodies :
        IF ~OkStatus(status)
        THEN /\ GoogleFailed(GoogleHttpError(status, body))
             /\ log' = Append(log, Event(idx, "google", "fail", <<>>))
        ELSE IF ~body.readable \/ body.null
        THEN /\ GoogleFailed(GoogleUnavailable)
             /\ log' = Append(log, Event(idx, "google", "fail", <<>>))
        ELSE IF MissingText(body)
        THEN /\ GoogleFailed(InvalidResponse("google"))
             /\ log' = Append(log, Event(idx, "google", "fail", <<>>))
        ELSE /\ ChunkTranslated(ChunkResult(body, SourceOrAuto(rSource), "google"),
                                "google")
             /\ log' = Append(log, Event(idx, "google", "ok", body.text))
    /\ status' = 0
    /\ inflight' = inflight \ {Call(idx, "google")}
    /\ UNCHANGED <<googleTranslateKey, argVars, timers, chunked, valVars, splitVars, extVars>>

\* translateWithLibre is called for the current chunk.
LibreStart ==
    /\ pc = "libre_start"
    /\ IF rTarget.t # "string"
       THEN /\ LibreFailed(LibreUnavailable)
            /\ log' = log \o <<Event(idx, "libretranslate", "call", <<>>),
                               Event(idx, "libretranslate", "fail", <<>>)>>
            /\ UNCHANGED <<timers, inflight>>
       ELSE /\ timers' = timers \cup {Call(idx, "libretranslate")}
            /\ inflight' = inflight \cup RequestsSent(idx, "libretranslate")
            /\ log' = log \o <<Event(idx, "libretranslate", "call", <<>>),
                               Event(idx, "libretranslate", "fetch", <<>>)>>
            /\ pc' = "libre_fetch"
            /\ UNCHANGED <<loopVars, googleError, result, thrown>>
    /\ UNCHANGED <<googleTranslateKey, argVars, status, chunked, valVars, splitVars, extVars>>

LibreResponds ==
    /\ pc = "libre_fetch"
    /\ \E code \in Statuses : status' = code
    /\ timers' = clearTimeout(timers, Call(idx, "libretranslate"))
    /\ pc' = "libre_body"
    /\ UNCHANGED <<googleTranslateKey, argVars, loopVars, googleError, inflight,
                   result, thrown, chunked, log, valVars, splitVars, extVars>>

LibreNetworkError ==
    /\ pc = "libre_fetch"
    /\ timers' = clearTimeout(timers, Call(idx, "libretranslate"))
    /\ inflight' = inflight \ {Call(idx, "libretranslate")}
    /\ log' = Append(log, Event(idx, "libretranslate", "fail", <<>>))
    /\ LibreFailed(LibreUnavailable)
    /\ UNCHANGED <<googleTranslateKey, argVars, status, chunked, valVars, splitVars, extVars>>

LibreTimeout ==
    /\ pc = "libre_fetch"
    /\ Call(idx, "libretranslate") \in timers
    /\ timers' = timers \ {Call(idx, "libretranslate")}
    /\ inflight' = inflight \ {Call(idx, "libretranslate")}
    /\ log' = Append(log, Event(idx, "libretranslate", "fail", <<>>))
    /\ LibreFailed(TimeoutError)
    /\ UNCHANGED <<googleTranslateKey, argVars, status, chunked, valVars, splitVars, extVars>>

\* response.json() settles: lines 236-267 and the catch of lines 269-287.
LibreBody ==
    /\ pc = "libre_body"
    /\ \E body \in Bodies :
        IF ~OkStatus(status)
        THEN /\ LibreFailed(LibreHttpError(status, body))
             /\ log' = Append(log, Event(idx, "libretranslate", "fail", <<>>))
        ELSE IF ~body.readable \/ body.null
        THEN /\ LibreFailed(LibreUnavailable)
             /\ log' = Append(log, Event(idx, "libretranslate", "fail", <<>>))
        ELSE IF MissingText(body)
        THEN /\ LibreFailed(InvalidResponse("libretranslate"))
             /\ log' = Append(log, Event(idx, "libretranslate", "fail", <<>>))
        ELSE /\ ChunkTranslated(ChunkResult(body, SourceOrAuto(rSource),
                                            "libretranslate"), LibreTag)
             /\ log' = Append(log, Event(idx, "libretranslate", "ok", body.text))
    /\ status' = 0
    /\ inflight' = inflight \ {Call(idx, "libretranslate")}
    /\ UNCHANGED <<googleTranslateKey, argVars, timers, chunked, valVars, splitVars, extVars>>

Next ==
    \/ Translate
    \/ GoogleStart
    \/ GoogleResponds
    \/ GoogleNetworkError
    \/ GoogleTimeout
    \/ GoogleBody
    \/ LibreStart
    \/ LibreResponds
    \/ LibreNetworkError
    \/ LibreTimeout
    \/ LibreBody

Spec == InitTranslate /\ [][Next]_vars

----------------------------------------------------------------------------
(* Translation Orchestrator: claims C1, C2, C8, C9 and C10 *)

IsSuccessEnvelope(env) ==
    DOMAIN env = {"success", "data"} /\ env.success = TRUE

IsFailureEnvelope(env) ==
    /\ DOMAIN env = {"success", "error"}
    /\ env.success = FALSE
    /\ DOMAIN env.error = {"message", "type", "statusCode"}

\* C1: translate never raises, and what it returns is either
\* {success:true, data} or {success:false, error}, never both or neither.
C1_NeverThrows ==
    /\ ~thrown
    /\ pc = "done" => (IsSuccessEnvelope(result) \/ IsFailureEnvelope(result))
    /\ pc \notin {"done", "unused"} => result = NoResult

\* A request whose second or third chunk exhausted both providers, after
\* provider calls that ended in every way.
C1_Witness ==
    /\ pc = "done"
    /\ IsFailureEnvelope(result)
    /\ idx >= 2
    /\ Len(log) >= 6

ValidationKinds ==
    {"MISSING_TEXT", "EMPTY_TEXT", "TEXT_TOO_LONG", "MISSING_TARGET_LANGUAGE"}

\* C2: when validation fails, translate returns the failed envelope with the
\* validator's kind, and neither chunks the text nor calls a provider.
C2_ValidationFailsFast ==
    (pc \notin {"idle", "unused"} /\ validateTranslationRequest(rText, rTarget) # "ok") =>
        /\ pc = "done"
        /\ IsFailureEnvelope(result)
        /\ result.error.type = validateTranslationRequest(rText, rTarget)
        /\ result.error.type \in ValidationKinds
        /\ ~chunked
        /\ reqChunks = <<>>
        /\ log = <<>>
        /\ inflight = {}
        /\ timers = {}

\* A text longer than the limit, rejected although a target language is given.
C2_Witness ==
    /\ pc = "done"
    /\ IsFailureEnvelope(result)
    /\ result.error.type = "TEXT_TOO_LONG"
    /\ ~LangFalsy(rTarget)

Logged(i, provider, ev) ==
    \E k \in 1..Len(log) :
        log[k].chunk = i /\ log[k].provider = provider /\ log[k].ev = ev

\* The text the provider returned for chunk i, when it succeeded on it.
TextFrom(i, provider) ==
    LET k == CHOOSE j \in 1..Len(log) :
                 log[j].chunk = i /\ log[j].provider = provider /\ log[j].ev = "ok"
    IN log[k].text

FellBack(i) ==
    Logged(i, "google", "fail") /\ Logged(i, "libretranslate", "ok")

\* The pieces of a joined translation: the words between its single spaces.
PiecesOf(str) == SplitWords(str)

\* C8 as stated: if provider #1 fails for a chunk and provider #2 succeeds on
\* it, translate returns success with the identifier of provider #2, the text
\* provider #2 produced and no error field.
C8_FallbackReported ==
    \A i \in 1..Len(reqChunks) :
        (pc = "done" /\ FellBack(i)) =>
            /\ IsSuccessEnvelope(result)
            /\ result.data.provider = "libretranslate"
            /\ PiecesOf(result.data.translatedText)[i] = TextFrom(i, "libretranslate")

\* C8 amended: if provider #1 fails for the last chunk of the request and
\* provider #2 succeeds on it, translate returns success with the identifier
\* of provider #2, the text provider #2 produced as the piece of that chunk
\* and no error field.
C8_FallbackOnLastChunk ==
    LET last == Len(reqChunks)
    IN (pc = "done" /\ last >= 1 /\ FellBack(last)) =>
            /\ IsSuccessEnvelope(result)
            /\ result.data.provider = "libretranslate"
            /\ Len(PiecesOf(result.data.translatedText)) = last
            /\ PiecesOf(result.data.translatedText)[last] =
                   TextFrom(last, "libretranslate")

\* The last of several chunks translated by provider #2 after a failure of
\* provider #1, an earlier chunk having been translated by provider #1.
C8_Witness ==
    /\ pc = "done"
    /\ Len(reqChunks) >= 2
    /\ FellBack(Len(reqChunks))
    /\ Logged(1, "google", "ok")

Exhausted(i) ==
    Logged(i, "google", "fail") /\ Logged(i, "libretranslate", "fail")

\* C9: if both providers fail for a chunk, translate returns {success:false}
\* with kind ALL_SERVICES_FAILED, without any translated text of the earlier
\* chunks, and no later chunk is attempted.
C9_AllProvidersFail ==
    \A i \in 1..Len(reqChunks) :
        Exhausted(i) =>
            /\ pc = "done"
            /\ IsFailureEnvelope(result)
            /\ result.error.type = "ALL_SERVICES_FAILED"
            /\ \A k \in 1..Len(log) : log[k].chunk <= i

\* The third chunk exhausted both providers after two translated chunks.
C9_Witness ==
    /\ pc = "done"
    /\ Exhausted(3)
    /\ Len(translatedChunks) = 2
    /\ Logged(1, "libretranslate", "ok")

\* C10: at most one provider request is in flight at any time; the first
\* provider call for chunk N+1 comes after a success on chunk N and the calls
\* of a chunk never follow a call of a later chunk.
C10_OneCallAtATime ==
    /\ Cardinality(inflight) <= 1
    /\ \A k \in 1..Len(log) :
        /\ (log[k].ev = "call" /\ log[k].chunk > 1) =>
                \E j \in 1..(k - 1) :
                    log[j].chunk = log[k].chunk - 1 /\ log[j].ev = "ok"
        /\ \A j \in 1..(k - 1) :
                /\ log[j].chunk <= log[k].chunk
                /\ ~(log[j].provider = "libretranslate" /\ log[j].ev = "fail")

\* The request of the second chunk is in flight after the first chunk's
\* chain ended in a success of the fallback provider.
C10_Witness ==
    /\ inflight = {Call(2, "google")}
    /\ Logged(1, "google", "fail")
    /\ Logged(1, "libretranslate", "ok")

----------------------------------------------------------------------------
(* Request Validator: claims C3 and C4 *)

WhitespaceOnly(str) == \A i \in 1..Len(str) : IsWS(str[i].c)

\* The numbers of the checks of the validator that an input fails.
FailingChecks(text, target) ==
    {k \in 1..4 :
        \/ k = 1 /\ (Falsy(text) \/ text.t # "string")
        \/ k = 2 /\ text.t = "string" /\ WhitespaceOnly(text.s)
        \/ k = 3 /\ text.t = "string" /\ StrLen(text.s) > 5000
        \/ k = 4 /\ LangFalsy(target)}

CheckKind(k) ==
    CASE k = 1 -> "MISSING_TEXT"
      [] k = 2 -> "EMPTY_TEXT"
      [] k = 3 -> "TEXT_TOO_LONG"
      [] k = 4 -> "MISSING_TARGET_LANGUAGE"

FirstCheck(failing) == CHOOSE k \in failing : \A j \in failing : k <= j

\* C3: the validator raises the kind of the first failing check among
\* (1) MISSING_TEXT, (2) EMPTY_TEXT, (3) TEXT_TOO_LONG, (4)
\* MISSING_TARGET_LANGUAGE, and raises nothing when no check fails.
C3_FailFastOrder ==
    vResult \notin {"pending", "unused"} =>
        LET failing == FailingChecks(vText, vTarget)
        IN IF failing = {} THEN vResult = "ok"
           ELSE vResult = CheckKind(FirstCheck(failing))

\* A white-space-only text longer than the limit with no target language:
\* checks 2, 3 and 4 fail and only EMPTY_TEXT is reported.
C3_Witness ==
    /\ vResult = "EMPTY_TEXT"
    /\ FailingChecks(vText, vTarget) = {2, 3, 4}

TrimmedLength(text) == StrLen(Trim(text.s))

RejectedTexts(text) ==
    text.t = "string" /\ (WhitespaceOnly(text.s) \/ StrLen(text.s) > 5000)

\* C4 as stated: every text whose trimmed length is in (0, 5000] is accepted
\* when a target language is present, and the empty string, white-space-only
\* strings and texts longer than 5000 characters are rejected.
C4_TrimmedLengthAccepted ==
    vResult \notin {"pending", "unused"} =>
        /\ (/\ vText.t = "string"
            /\ TrimmedLength(vText) > 0
            /\ TrimmedLength(vText) <= 5000
            /\ ~LangFalsy(vTarget)) => vResult = "ok"
        /\ RejectedTexts(vText) => vResult # "ok"

\* C4 amended: a text is accepted when its trimmed length is positive, its
\* full (untrimmed) length is at most 5000 and a target language is present;
\* the empty string, white-space-only strings and texts longer than 5000
\* characters are rejected.
C4_FullLengthAccepted ==
    vResult \notin {"pending", "unused"} =>
        /\ (/\ vText.t = "string"
            /\ TrimmedLength(vText) > 0
            /\ StrLen(vText.s) <= 5000
            /\ ~LangFalsy(vTarget)) => vResult = "ok"
        /\ RejectedTexts(vText) => vResult # "ok"

\* A text of exactly 5000 characters with surrounding white space is accepted.
C4_Witness ==
    /\ vResult = "ok"
    /\ StrLen(vText.s) = 5000
    /\ TrimmedLength(vText) < 5000

----------------------------------------------------------------------------
(* Text Chunker: claims C5, C6 and C7 *)

HasWS(str) == \E i \in 1..Len(str) : IsWS(str[i].c)

SingleLongWord(chunk, maxChunkSize) ==
    chunk # <<>> /\ ~HasWS(chunk) /\ StrLen(chunk) > maxChunkSize

\* C5: no chunk is longer than maxChunkSize, except a chunk that is a single
\* word longer than maxChunkSize.
C5_ChunksWithinLimit ==
    sDone => \A i \in 1..Len(sChunks) :
                \/ StrLen(sChunks[i]) <= sMax
                \/ SingleLongWord(sChunks[i], sMax)

\* The words of a string: its maximal runs of non-white-space characters.
RECURSIVE WordScan(_, _, _, _)
WordScan(str, i, cur, acc) ==
    IF i > Len(str) THEN (IF cur # <<>> THEN Append(acc, cur) ELSE acc)
    ELSE IF IsWS(str[i].c)
         THEN WordScan(str, i + 1, <<>>, IF cur # <<>> THEN Append(acc, cur) ELSE acc)
         ELSE WordScan(str, i + 1, Append(cur, str[i]), acc)

WordsOf(str) == WordScan(str, 1, <<>>, <<>>)

\* C6: the chunks joined with single spaces hold exactly the words of the
\* text, in the order of the text.
C6_WordsPreserved ==
    sDone => WordsOf(JoinSpace(sChunks)) = WordsOf(sText)

\* A text cut into three chunks, one of them closed by the word loop.
C6_Witness ==
    /\ sDone
    /\ Len(sChunks) >= 3
    /\ Len(WordsOf(sText)) >= 3
    /\ HasWS(sChunks[1])

\* C7: a text of at most maxChunkSize characters is returned as the single
\* chunk [text], unchanged.
C7_ShortTextIdentity ==
    (sDone /\ StrLen(sText) <= sMax) => sChunks = <<sText>>

\* A text of exactly maxChunkSize characters holding a line break, which the
\* packing loops would have rewritten.
C7_Witness ==
    /\ sDone
    /\ StrLen(sText) = sMax
    /\ \E i \in 1..Len(sText) : sText[i].c = "\n"
    /\ sChunks = <<sText>>

----------------------------------------------------------------------------
(* LyricsApi.withRetry (src/src/api/lyricsApi.js): one call, from the entry *)
(* of the loop to the value returned or the error raised.  The operation   *)
(* is the caller's: each invocation either resolves with a value or        *)
(* rejects with an error of any type.                                      *)

\* Default values of the parameters maxRetries and delay.
DefaultMaxRetries == 3
DefaultDelay == 1000

\* Largest maxRetries given to withRetry.
MaxRetries == 4

RetryCounts == (0 - 1)..MaxRetries
RetryDelays == {DefaultDelay, 300}

\* Types of the errors the operation raises: transient kinds, the permanent
\* kinds of extraction, the kinds of the validator, and "" for an error
\* that has no type property.
OpKinds ==
    {"NETWORK_ERROR", "TIMEOUT", "INVALID_URL", "VIDEO_NOT_FOUND", "NO_LYRICS_FOUND",
     "MISSING_TEXT", "EMPTY_TEXT", "TEXT_TOO_LONG", "MISSING_TARGET_LANGUAGE", ""}

\* Values the operation resolves with: a result, or a {success:false}
\* envelope of translate or processVideo, known by the kind it carries.
FailureEnvelopes == {"envelope:TIMEOUT", "envelope:NETWORK_ERROR", "envelope:INVALID_URL"}
OpValues == {"data"} \cup FailureEnvelopes

\* An entry of the history of a withRetry call: "call" when the operation
\* is invoked, "resolve" or "reject" when it settles, "wait" when the
\* backoff timer is set.
RetryEvent(ev, attempt, type, ms) ==
    [ev |-> ev, attempt |-> attempt, type |-> type, ms |-> ms]

\* Mutant: every error is rethrown at once.
NonRetryableAll(type) == TRUE

\* Mutant: no error is rethrown at once.
NonRetryableNone(type) == FALSE

\* The test of the catch block: error types that are rethrown at once.
NonRetryable(type) == type \in {"INVALID_URL", "VIDEO_NOT_FOUND", "NO_LYRICS_FOUND"}

RECURSIVE Pow2(_)
Pow2(n) == IF n <= 0 THEN 1 ELSE 2 * Pow2(n - 1)

\* Mutant: the delay grows linearly.
BackoffLinear(delay, attempt) == delay * attempt

\* delay * Math.pow(2, attempt - 1)
Backoff(delay, attempt) == delay * Pow2(attempt - 1)

\* Mutant: the result of the first attempt is returned.
ResolvedOutcomeFirst(value, attempt) == [how |-> "returned", v |-> OpError(value, 1)]

\* Mutant: a {success:false} envelope is raised instead of returned.
ResolvedOutcomeRaisesFailure(value, attempt) ==
    [how |-> IF value \in FailureEnvelopes THEN "thrown" ELSE "returned",
     v |-> OpError(value, attempt)]

\* return await operation(): the value the attempt resolved with is returned
\* as it is.
ResolvedOutcome(value, attempt) == [how |-> "returned", v |-> OpError(value, attempt)]

\* Mutant: the error of the first failed attempt is kept.
LastErrorFirst(previous, error) ==
    IF previous = RetryUndefined THEN error ELSE previous

\* lastError = error, in every pass through the catch block.
LastErrorAfter(previous, error) == error

InitRetry ==
    /\ wMaxRetries \in RetryCounts
    /\ wDelay \in RetryDelays
    /\ wAttempt = 1
    /\ wPc = "loop"
    /\ wLastError = RetryUndefined
    /\ wOutcome = RetryPending
    /\ wLog = <<>>
    /\ NoValidate
    /\ NoSplit
    /\ NoTranslate
    /\ NoForm
    /\ NoClass
    /\ NoOthers

\* The loop test holds: operation() is invoked and awaited.
RetryCall ==
    /\ wPc = "loop"
    /\ wAttempt <= wMaxRetries
    /\ wPc' = "awaiting"
    /\ wLog' = Append(wLog, RetryEvent("call", wAttempt, "", 0))
    /\ UNCHANGED <<wMaxRetries, wDelay, wAttempt, wLastError, wOutcome,
                   notRetryVars>>

\* The loop test fails: throw lastError.
RetryLoopExit ==
    /\ wPc = "loop"
    /\ ~(wAttempt <= wMaxRetries)
    /\ wOutcome' = [how |-> "thrown", v |-> wLastError]
    /\ wPc' = "thrown"
    /\ UNCHANGED <<wMaxRetries, wDelay, wAttempt, wLastError, wLog,
                   notRetryVars>>

\* The operation resolves: return await operation().
OperationResolves ==
    /\ wPc = "awaiting"
    /\ \E value \in OpValues :
        /\ wOutcome' = ResolvedOutcome(value, wAttempt)
        /\ wLog' = Append(wLog, RetryEvent("resolve", wAttempt, value, 0))
    /\ wPc' = "returned"
    /\ UNCHANGED <<wMaxRetries, wDelay, wAttempt, wLastError,
                   notRetryVars>>

\* The operation rejects: the catch block.
OperationRejects ==
    /\ wPc = "awaiting"
    /\ \E type \in OpKinds :
        LET error == OpError(type, wAttempt)
            rejected == Append(wLog, RetryEvent("reject", wAttempt, type, 0))
        IN /\ wLastError' = LastErrorAfter(wLastError, error)
           /\ IF NonRetryable(error.type)
              THEN /\ wOutcome' = [how |-> "thrown", v |-> error]
                   /\ wPc' = "thrown"
                   /\ wLog' = rejected
              ELSE IF wAttempt = wMaxRetries
                   THEN /\ wOutcome' = [how |-> "thrown", v |-> wLastError']
                        /\ wPc' = "thrown"
                        /\ wLog' = rejected
                   ELSE /\ wPc' = "waiting"
                        /\ wLog' = Append(rejected,
                                          RetryEvent("wait", wAttempt, "",
                                                     Backoff(wDelay, wAttempt)))
                        /\ UNCHANGED wOutcome
    /\ UNCHANGED <<wMaxRetries, wDelay, wAttempt, notRetryVars>>

\* The backoff timer fires: attempt++ and the loop test again.
DelayElapses ==
    /\ wPc = "waiting"
    /\ wAttempt' = wAttempt + 1
    /\ wPc' = "loop"
    /\ UNCHANGED <<wMaxRetries, wDelay, wLastError, wOutcome, wLog,
                   notRetryVars>>

NextRetry ==
    \/ RetryCall
    \/ RetryLoopExit
    \/ OperationResolves
    \/ OperationRejects
    \/ DelayElapses

SpecRetry == InitRetry /\ [][NextRetry]_vars

----------------------------------------------------------------------------
(* Claims about withRetry, checked under SpecRetry *)

\* The entries of the history with the given tag, in order.
EventsOf(ev) == SelectSeq(wLog, LAMBDA e : e.ev = ev)

\* Number of times the operation was invoked.
Invocations == Len(EventsOf("call"))

RetryFinished == wPc \in {"returned", "thrown"}

\* The kinds the taxonomy calls transient, among those the operation raises.
TransientKinds == {"NETWORK_ERROR", "TIMEOUT"}

\* Every invocation so far failed, with a transient kind.
AlwaysFailedTransient ==
    /\ EventsOf("resolve") = <<>>
    /\ \A i \in 1..Len(wLog) :
           wLog[i].ev = "reject" => wLog[i].type \in TransientKinds

\* C11: the operation is never invoked more than maxRetries times (not at
\* all when maxRetries is below 1), whatever its outcomes; and when every
\* invocation fails with a transient kind, withRetry ends by raising after
\* exactly maxRetries invocations.
C11_BoundedAttempts ==
    /\ Invocations <= (IF wMaxRetries >= 0 THEN wMaxRetries ELSE 0)
    /\ (RetryFinished /\ AlwaysFailedTransient /\ wMaxRetries >= 0)
           => (Invocations = wMaxRetries /\ wOutcome.how = "thrown")

\* The default three attempts all failed with NETWORK_ERROR.
C11_Witness ==
    /\ wPc = "thrown"
    /\ wMaxRetries = DefaultMaxRetries
    /\ Invocations = DefaultMaxRetries
    /\ \A i \in 1..Len(EventsOf("reject")) : EventsOf("reject")[i].type = "NETWORK_ERROR"
    /\ Len(EventsOf("reject")) = DefaultMaxRetries

\* The delays waited so far, in order, in milliseconds.
DelaysWaited == [i \in 1..Len(EventsOf("wait")) |-> EventsOf("wait")[i].ms]

\* C12 as stated: before every attempt k after the first, the delay waited
\* is delay * 2^(k-1).
C12_DelayBeforeAttempt ==
    AlwaysFailedTransient =>
        \A i \in 1..Len(wLog) :
            (wLog[i].ev = "call" /\ wLog[i].attempt >= 2)
                => /\ wLog[i - 1].ev = "wait"
                   /\ wLog[i - 1].ms = wDelay * Pow2(wLog[i].attempt - 1)

\* C12, amended: nothing is waited before the first attempt, and the one
\* delay waited between the failed attempt k and attempt k + 1 is exactly
\* delay * 2^(k-1), that is delay * 2^(j-2) before attempt j.
C12_DelayAfterAttempt ==
    \A i \in 1..Len(wLog) :
        wLog[i].ev = "call"
            => IF wLog[i].attempt = 1
               THEN i = 1
               ELSE /\ wLog[i - 1].ev = "wait"
                    /\ wLog[i - 2].ev = "reject"
                    /\ wLog[i - 1].ms = wDelay * Pow2(wLog[i].attempt - 2)

\* Four attempts with the default delay all failed: 1000, 2000 and 4000 ms
\* were waited.
C12_Witness ==
    /\ wPc = "thrown"
    /\ AlwaysFailedTransient
    /\ wDelay = DefaultDelay
    /\ Invocations = 4
    /\ DelaysWaited = <<1000, 2000, 4000>>

\* C13: an invocation that fails with INVALID_URL, VIDEO_NOT_FOUND or
\* NO_LYRICS_FOUND is the last step of the call: no invocation and no delay
\* follows it, withRetry raises that very error, and when it was the first
\* attempt the operation was invoked exactly once.
C13_PermanentNotRetried ==
    \A i \in 1..Len(wLog) :
        (wLog[i].ev = "reject"
         /\ wLog[i].type \in {"INVALID_URL", "VIDEO_NOT_FOUND", "NO_LYRICS_FOUND"})
            => /\ i = Len(wLog)
               /\ wPc = "thrown"
               /\ wOutcome = [how |-> "thrown",
                              v |-> OpError(wLog[i].type, wLog[i].attempt)]
               /\ Len(DelaysWaited) = wLog[i].attempt - 1
               /\ (wLog[i].attempt = 1 => Invocations = 1)

\* NO_LYRICS_FOUND on the first of the default three attempts.
C13_Witness ==
    /\ wMaxRetries = DefaultMaxRetries
    /\ wPc = "thrown"
    /\ wOutcome = [how |-> "thrown", v |-> OpError("NO_LYRICS_FOUND", 1)]
    /\ Invocations = 1
    /\ DelaysWaited = <<>>

\* C14 as stated: an invocation that fails with a kind of the validator is
\* not followed by another invocation.
C14_ValidationNotRetried ==
    \A i \in 1..Len(wLog) :
        (wLog[i].ev = "reject" /\ wLog[i].type \in ValidationKinds)
            => \A j \in (i + 1)..Len(wLog) : wLog[j].ev # "call"

----------------------------------------------------------------------------
(* LyricsApi.makeRequest and LyricsApi.extractLyrics (src/src/api/lyricsApi.js) *)

\* new LyricsApiError(message, type, statusCode = null); 0 stands for null.
LyricsApiError(message, type, statusCode) ==
    [message |-> message, type |-> type, statusCode |-> statusCode]

BackendText == "text of the backend's error body"

\* HTTP statuses the backend answers with.
LyricsStatuses == {200, 400, 403, 404, 429, 500, 503}

\* A body of the backend: unreadable (response.json() rejects), the JSON
\* value null, or a JSON object with an optional message and an optional
\* lyrics field.
LyricsBody(readable, null, message, lyrics) ==
    [readable |-> readable, null |-> null, message |-> message, lyrics |-> lyrics]

LyricsTexts == {<<Run(" ", 1)>>, OneChunkText, <<Run("a", 5001)>>}

LyricsBodies ==
    {LyricsBody(FALSE, FALSE, FALSE, JSUndefined),
     LyricsBody(TRUE, TRUE, FALSE, JSUndefined),
     LyricsBody(TRUE, FALSE, TRUE, JSUndefined),
     LyricsBody(TRUE, FALSE, FALSE, JSUndefined),
     LyricsBody(TRUE, FALSE, FALSE, JSNumber(42))}
    \cup {LyricsBody(TRUE, FALSE, FALSE, JSString(t)) : t \in LyricsTexts}

LyricsTimeout ==
    LyricsApiError("Request timeout. The video might be too long or server is busy",
                   "TIMEOUT", 0)

\* The last two branches of the catch of makeRequest, chosen by
\* navigator.onLine.
LyricsNetworkError(online) ==
    LyricsApiError(IF online THEN "Network error. Please check your connection"
                   ELSE "No internet connection. Please check your network",
                   "NETWORK_ERROR", 0)

\* The error makeRequest raises for a response that is not ok.  An
\* unreadable body is replaced by {}; reading errorData.message of the body
\* null raises a TypeError, which the catch maps to NETWORK_ERROR.
LyricsHttpError(code, body, online) ==
    LET hasMessage == body.readable /\ body.message
        isNull == body.readable /\ body.null
    IN CASE code = 400 ->
              IF isNull THEN LyricsNetworkError(online)
              ELSE LyricsApiError(IF hasMessage THEN BackendText
                                  ELSE "Invalid request parameters",
                                  "INVALID_REQUEST", 400)
         [] code = 404 ->
              LyricsApiError("Video not found or unavailable", "VIDEO_NOT_FOUND", 404)
         [] code = 429 ->
              LyricsApiError("Rate limit exceeded. Please try again later",
                             "RATE_LIMITED", 429)
         [] code = 500 ->
              LyricsApiError("Server error. Please try again later", "SERVER_ERROR", 500)
         [] OTHER ->
              IF isNull THEN LyricsNetworkError(online)
              ELSE LyricsApiError(IF hasMessage THEN BackendText ELSE "HTTP status",
                                  "HTTP_ERROR", code)

\* What makeRequest does once the response arrived: the error it raises, or
\* the parsed body it returns.
MakeRequestSettles(code, body, online) ==
    IF ~OkStatus(code)
    THEN [ok |-> FALSE, error |-> LyricsHttpError(code, body, online)]
    ELSE IF ~body.readable
         THEN [ok |-> FALSE, error |-> LyricsNetworkError(online)]
         ELSE [ok |-> TRUE, error |-> LyricsApiError("", "", 0)]

InvalidUrl == LyricsApiError("Please enter a valid YouTube URL", "INVALID_URL", 0)

NoLyricsFound ==
    LyricsApiError("No lyrics found in this video. Try a video with clear vocals or captions",
                   "NO_LYRICS_FOUND", 0)

ExtractionError ==
    LyricsApiError("Failed to extract lyrics from video", "EXTRACTION_ERROR", 0)

\* What extractLyrics does once makeRequest settled: a LyricsApiError is
\* passed on, any other error (reading a field of null, calling trim on a
\* value that is no string) becomes EXTRACTION_ERROR.
ExtractLyricsSettles(code, body, online) ==
    LET r == MakeRequestSettles(code, body, online)
    IN IF ~r.ok THEN r
       ELSE IF body.null THEN [ok |-> FALSE, error |-> ExtractionError]
       ELSE IF Falsy(body.lyrics) THEN [ok |-> FALSE, error |-> NoLyricsFound]
       ELSE IF body.lyrics.t # "string" THEN [ok |-> FALSE, error |-> ExtractionError]
       ELSE IF Trim(body.lyrics.s) = <<>> THEN [ok |-> FALSE, error |-> NoLyricsFound]
       ELSE r

\* A URL is a sequence of tokens: a scheme, "www.", a path prefix, "v=",
\* "ID11" and "ID11b" (two ids of 11 characters of [a-zA-Z0-9_-]), "ID10" (10
\* such characters and "&"), " " and "#".
VideoIds == {"ID11", "ID11b"}

UrlBlank(url) == \A i \in 1..Len(url) : url[i] = " "

UrlFrom(url, k) == SubSeq(url, k, Len(url))

\* patterns.some(pattern => pattern.test(url))
validateYouTubeUrl(url) ==
    /\ Len(url) >= 1
    /\ url[1] \in {"http://", "https://"}
    /\ LET r == IF Len(url) >= 2 /\ url[2] = "www." THEN UrlFrom(url, 3)
                ELSE UrlFrom(url, 2)
       IN \/ /\ Len(r) >= 3
             /\ r[1] = "youtube.com/watch?" /\ r[2] = "v=" /\ r[3] \in VideoIds
          \/ /\ Len(r) >= 2
             /\ r[1] \in {"youtu.be/", "youtube.com/embed/", "youtube.com/v/"}
             /\ r[2] \in VideoIds
          \/ /\ Len(r) >= 3
             /\ r[1] = "youtube.com/watch?"
             /\ \E j \in 2..(Len(r) - 1) : r[j] = "v=" /\ r[j + 1] \in VideoIds

\* The text captured by group 1 of each pattern of extractVideoId, which are
\* the patterns of validateYouTubeUrl without the anchor and the scheme.
ShortPrefixes == {"youtu.be/", "youtube.com/embed/", "youtube.com/v/"}

FirstPatternAt(url, i) ==
    \/ /\ url[i] = "youtube.com/watch?" /\ i + 2 <= Len(url)
       /\ url[i + 1] = "v=" /\ url[i + 2] \in VideoIds
    \/ /\ url[i] \in ShortPrefixes /\ i + 1 <= Len(url)
       /\ url[i + 1] \in VideoIds

FirstPatternId(url, i) ==
    IF url[i] = "youtube.com/watch?" THEN url[i + 2] ELSE url[i + 1]

SecondPatternAt(url, i) ==
    /\ url[i] = "youtube.com/watch?"
    /\ \E j \in (i + 1)..(Len(url) - 1) : url[j] = "v=" /\ url[j + 1] \in VideoIds

\* .* is greedy: the id captured follows the last "v=" that an id follows.
SecondPatternId(url, i) ==
    LET js == {j \in (i + 1)..(Len(url) - 1) : url[j] = "v=" /\ url[j + 1] \in VideoIds}
    IN url[(CHOOSE j \in js : \A k \in js : k <= j) + 1]

Leftmost(positions) == CHOOSE i \in positions : \A k \in positions : i <= k

InvalidUrlFormat == LyricsApiError("Invalid YouTube URL format", "INVALID_URL", 0)

\* url.match(pattern) for each pattern in turn: the first pattern that
\* matches anywhere in the URL gives the id, at its leftmost match.
extractVideoId(url) ==
    LET first == {i \in 1..Len(url) : FirstPatternAt(url, i)}
        second == {i \in 1..Len(url) : SecondPatternAt(url, i)}
    IN IF first # {}
       THEN [ok |-> TRUE, videoId |-> FirstPatternId(url, Leftmost(first)),
             error |-> LyricsApiError("", "", 0)]
       ELSE IF second # {}
       THEN [ok |-> TRUE, videoId |-> SecondPatternId(url, Leftmost(second)),
             error |-> LyricsApiError("", "", 0)]
       ELSE [ok |-> FALSE, videoId |-> "", error |-> InvalidUrlFormat]

\* extractLyrics up to its call of makeRequest: the request it sends, or
\* the error it raises without sending one.
ExtractLyricsRequest(url) ==
    IF ~validateYouTubeUrl(url)
    THEN [done |-> TRUE, sent |-> FALSE, videoId |-> "", error |-> InvalidUrl]
    ELSE LET v == extractVideoId(url)
         IN IF ~v.ok
            THEN [done |-> TRUE, sent |-> FALSE, videoId |-> "", error |-> v.error]
            ELSE [done |-> TRUE, sent |-> TRUE, videoId |-> v.videoId,
                  error |-> LyricsApiError("", "", 0)]

----------------------------------------------------------------------------
(* LyricsForm (src/src/api/lyricsApi.js, from line 279): the form, its     *)
(* submit and retry handlers, the extraction request and the translation.  *)

\* state.retryCount >= 3 in handleRetry, state.retryCount < 3 in canRetry.
RetryLimit == 3

\* Largest number of requests started by clicks on Retry after one Submit.
MaxRetryClicks == 4

FormUrls ==
    {<<>>, <<" ">>, <<"https://", "youtu.be/", "ID11">>,
     <<"https://", "youtu.be/", "ID10">>}

FormTargets == {"en", "si"}

\* An error object made by the form itself: { type, message }.
FormError(type, message) == LyricsApiError(message, type, 0)

errorMessages ==
    [type \in {"INVALID_URL", "VIDEO_NOT_FOUND", "NO_LYRICS_FOUND", "NETWORK_ERROR",
               "TIMEOUT", "RATE_LIMITED", "SERVER_ERROR", "TRANSLATION_ERROR",
               "ALL_SERVICES_FAILED", "TEXT_TOO_LONG", "QUOTA_EXCEEDED"} |->
        CASE type = "INVALID_URL" -> "Please enter a valid YouTube URL (e.g., ...)"
          [] type = "VIDEO_NOT_FOUND" -> "This video is not available. ..."
          [] type = "NO_LYRICS_FOUND" -> "No lyrics found in this video. ..."
          [] type = "NETWORK_ERROR" -> "Connection failed. ..."
          [] type = "TIMEOUT" -> "Request timed out. ..."
          [] type = "RATE_LIMITED" -> "Too many requests. ..."
          [] type = "SERVER_ERROR" -> "Server error. Please try again in a few minutes."
          [] type = "TRANSLATION_ERROR" -> "Translation failed. ..."
          [] type = "ALL_SERVICES_FAILED" -> "Translation services are currently unavailable. ..."
          [] type = "TEXT_TOO_LONG" -> "The lyrics are too long to translate. Try a shorter song."
          [] type = "QUOTA_EXCEEDED" -> "Translation quota exceeded. Please try again later."]

\* errorMessages[error.type] || error.message || 'An unexpected error ...'
getErrorMessage(error) ==
    IF error.type \in DOMAIN errorMessages THEN errorMessages[error.type]
    ELSE IF error.message # "" THEN error.message
    ELSE "An unexpected error occurred. Please try again."

retryableErrors ==
    {"NETWORK_ERROR", "TIMEOUT", "SERVER_ERROR", "TRANSLATION_ERROR", "SERVICE_UNAVAILABLE"}

\* canRetry(error) for an error that is set, with state.retryCount.
canRetry(error, retryCount) ==
    error.type \in retryableErrors /\ retryCount < RetryLimit

\* The Retry button is rendered: state.error && canRetry(state.error).
RetryOffered == fError # <<>> /\ canRetry(fError[1], fRetryCount)

\* The catch of handleSubmit.
FormFails(error) ==
    /\ fLoading' = FALSE
    /\ fStep' = "error"
    /\ fError' = <<error>>

\* translate has no call in progress.
TranslateReset ==
    /\ pc' = "idle"
    /\ rText' = JSUndefined /\ rTarget' = LangUndefined /\ rSource' = LangUndefined
    /\ reqChunks' = <<>> /\ idx' = 0
    /\ translatedChunks' = <<>> /\ detectedLang' = "" /\ usedProvider' = ""
    /\ status' = 0
    /\ googleError' = TranslationError("", "", 0)
    /\ timers' = {} /\ inflight' = {}
    /\ result' = NoResult
    /\ thrown' = FALSE /\ chunked' = FALSE
    /\ log' = <<>>

InitForm ==
    /\ fUrl = <<>> /\ fTarget = "en"
    /\ FormIdle
    /\ fLyrics = <<>>
    /\ fRetrySent = 0
    /\ xPc = "idle" /\ xStatus = 0 /\ xTimer = FALSE
    /\ googleTranslateKey \in BOOLEAN
    /\ pc = "idle"
    /\ rText = JSUndefined /\ rTarget = LangUndefined /\ rSource = LangUndefined
    /\ reqChunks = <<>> /\ idx = 0
    /\ translatedChunks = <<>> /\ detectedLang = "" /\ usedProvider = ""
    /\ status = 0
    /\ googleError = TranslationError("", "", 0)
    /\ timers = {} /\ inflight = {}
    /\ result = NoResult
    /\ thrown = FALSE /\ chunked = FALSE
    /\ log = <<>>
    /\ NoValidate
    /\ NoSplit
    /\ NoRetry
    /\ NoClass
    /\ NoOthers

\* handleInputChange: the fields are disabled while loading.
InputChange ==
    /\ ~fLoading
    /\ \/ \E url \in FormUrls \ {fUrl} : fUrl' = url /\ UNCHANGED fTarget
       \/ \E target \in FormTargets \ {fTarget} : fTarget' = target /\ UNCHANGED fUrl
    /\ fError' = <<>>
    /\ UNCHANGED <<fLoading, fResult, fStep, fRetryCount, fLyrics, fRetrySent,
                   requestVars, trVars, notFormVars>>

\* handleSubmit up to its first await, entered with state.retryCount equal
\* to count: the empty URL is refused at once; otherwise the state is reset
\* and extractLyrics either rejects the URL or sends its request.
HandleSubmit(count) ==
    IF UrlBlank(fUrl)
    THEN /\ fError' = <<FormError("INVALID_URL", "Please enter a YouTube URL")>>
         /\ fRetryCount' = count
         /\ UNCHANGED <<fLoading, fResult, fStep, requestVars>>
    ELSE /\ fRetryCount' = 0
         /\ fResult' = <<>>
         /\ IF ~validateYouTubeUrl(fUrl)
            THEN FormFails(InvalidUrl) /\ UNCHANGED requestVars
            ELSE /\ fLoading' = TRUE
                 /\ fError' = <<>>
                 /\ fStep' = "extracting"
                 /\ xPc' = "fetch"
                 /\ xStatus' = 0
                 /\ xTimer' = TRUE

\* The form is submitted.
Submit ==
    /\ ~fLoading
    /\ HandleSubmit(fRetryCount)
    /\ fRetrySent' = 0
    /\ UNCHANGED <<formDataVars, fLyrics, trVars, notFormVars>>

\* handleRetry: a click on the Retry button.
Retry ==
    /\ RetryOffered
    /\ fRetrySent < MaxRetryClicks
    /\ IF fRetryCount >= RetryLimit
       THEN /\ fError' = <<FormError("MAX_RETRIES",
                             "Maximum retry attempts reached. Please check your input and try again later.")>>
            /\ UNCHANGED <<fLoading, fResult, fStep, fRetryCount, fRetrySent, requestVars>>
       ELSE /\ HandleSubmit(fRetryCount + 1)
            /\ fRetrySent' = fRetrySent + 1
    /\ UNCHANGED <<formDataVars, fLyrics, trVars, notFormVars>>

\* The backend answers: clearTimeout, then the body is read.
ExtractResponds ==
    /\ xPc = "fetch"
    /\ \E code \in LyricsStatuses : xStatus' = code
    /\ xTimer' = FALSE
    /\ xPc' = "body"
    /\ UNCHANGED <<formDataVars, formStateVars, fLyrics, fRetrySent,
                   trVars, notFormVars>>

\* fetch rejects: no response.
ExtractNetworkError ==
    /\ xPc = "fetch"
    /\ \E online \in BOOLEAN : FormFails(LyricsNetworkError(online))
    /\ xTimer' = FALSE
    /\ xPc' = "idle"
    /\ UNCHANGED <<formDataVars, fResult, fRetryCount, fLyrics, fRetrySent, xStatus,
                   trVars, notFormVars>>

\* The timer fires while fetch is pending: the request is aborted.
ExtractTimeout ==
    /\ xPc = "fetch"
    /\ xTimer
    /\ FormFails(LyricsTimeout)
    /\ xTimer' = FALSE
    /\ xPc' = "idle"
    /\ UNCHANGED <<formDataVars, fResult, fRetryCount, fLyrics, fRetrySent, xStatus,
                   trVars, notFormVars>>

\* The body was read (or could not be): extractLyrics settles, and on
\* success handleSubmit calls translate with the lyrics.
ExtractBody ==
    /\ xPc = "body"
    /\ \E body \in LyricsBodies, online \in BOOLEAN :
        LET r == ExtractLyricsSettles(xStatus, body, online)
        IN IF ~r.ok
           THEN /\ FormFails(r.error)
                /\ UNCHANGED <<fLyrics, trVars>>
           ELSE /\ fStep' = "translating"
                /\ fLyrics' = body.lyrics.s
                /\ TranslateCall(body.lyrics, LangString(fTarget), LangUndefined)
                /\ UNCHANGED <<fLoading, fError>>
    /\ xPc' = "idle"
    /\ xStatus' = 0
    /\ UNCHANGED <<formDataVars, fResult, fRetryCount, fRetrySent, xTimer,
                   notFormVars>>

\* translate returned its envelope: the end of handleSubmit.
TranslationSettles ==
    /\ fStep = "translating"
    /\ pc = "done"
    /\ IF result.success
       THEN /\ fLoading' = FALSE
            /\ fStep' = "completed"
            /\ fResult' = <<[lyrics |-> fLyrics, translation |-> result.data]>>
            /\ UNCHANGED fError
       ELSE FormFails(result.error) /\ UNCHANGED fResult
    /\ TranslateReset
    /\ fLyrics' = <<>>
    /\ UNCHANGED <<googleTranslateKey, formDataVars, fRetryCount, fRetrySent,
                   requestVars, notFormVars>>

NextForm ==
    \/ InputChange
    \/ Submit
    \/ Retry
    \/ ExtractResponds
    \/ ExtractNetworkError
    \/ ExtractTimeout
    \/ ExtractBody
    \/ TranslationSettles
    \/ GoogleStart
    \/ GoogleResponds
    \/ GoogleNetworkError
    \/ GoogleTimeout
    \/ GoogleBody
    \/ LibreStart
    \/ LibreResponds
    \/ LibreNetworkError
    \/ LibreTimeout
    \/ LibreBody

SpecForm == InitForm /\ [][NextForm]_vars

----------------------------------------------------------------------------
(* Claims about the form, checked under SpecForm *)

\* C15 as stated: after one Submit, at most three requests are started by
\* clicks on Retry.
C15_RetryBounded == fRetrySent <= RetryLimit

\* The kinds the taxonomy calls transient.
transientErrors ==
    {"TIMEOUT", "NETWORK_ERROR", "RATE_LIMITED", "SERVER_ERROR", "SERVICE_UNAVAILABLE"}

\* C16 as stated: while an error is shown, the Retry button is rendered
\* exactly when the kind of the error is transient and fewer than three
\* retries were counted.
C16_RetryOfferedForTransient ==
    fError # <<>> =>
        (RetryOffered <=> (fError[1].type \in transientErrors /\ fRetryCount < RetryLimit))

\* C17 as stated: the message displayed for the error is never the text of
\* an error response body.
C17_NoRawErrorText ==
    fError # <<>> => getErrorMessage(fError[1]) \notin {ProviderText, BackendText}

----------------------------------------------------------------------------
(* How each client classifies the outcome of one HTTP call: the Google and *)
(* LibreTranslate clients (translateApi.js), the extraction client         *)
(* (lyricsApi.js) and the axios backend client (App.jsx).                  *)

Clients == {"google", "libretranslate", "extraction", "backend"}

ClassStatuses == {200, 400, 403, 404, 429, 500, 502, 503}

\* The outcome of the network call: no response (the request failed on the
\* network), the client's timeout fired first, or a response with a status
\* and a body.  The body is unreadable, null, or an object that may hold an
\* error message and may hold the content asked for.  online is
\* navigator.onLine.
NoResponse(online) ==
    [mode |-> "no_response", status |-> 0, readable |-> FALSE, null |-> FALSE,
     message |-> FALSE, content |-> FALSE, online |-> online]
TimedOut ==
    [mode |-> "timeout", status |-> 0, readable |-> FALSE, null |-> FALSE,
     message |-> FALSE, content |-> FALSE, online |-> TRUE]
Responded(code, readable, null, message, content) ==
    [mode |-> "response", status |-> code, readable |-> readable, null |-> null,
     message |-> message, content |-> content, online |-> TRUE]

Outcomes ==
    {NoResponse(online) : online \in BOOLEAN}
    \cup {TimedOut}
    \cup {Responded(code, FALSE, FALSE, FALSE, FALSE) : code \in ClassStatuses}
    \cup {Responded(code, TRUE, TRUE, FALSE, FALSE) : code \in ClassStatuses}
    \cup {Responded(code, TRUE, FALSE, m, c) : code \in ClassStatuses, m, c \in BOOLEAN}

\* The body as the translation clients read it.
ProviderBody(o) ==
    IF ~o.readable THEN BodyUnreadable
    ELSE IF o.null THEN BodyNull
    ELSE BodyJson(IF o.content THEN <<Run("x", 1)>> ELSE <<>>, "", o.message)

\* The body as the extraction client reads it.
ExtractionBody(o) ==
    LyricsBody(o.readable, o.null, o.message,
               IF o.content THEN JSString(OneChunkText) ELSE JSUndefined)

Settled(error) == [done |-> TRUE, ok |-> FALSE, error |-> error]
SettledOk == [done |-> TRUE, ok |-> TRUE, error |-> TranslationError("", "", 0)]

\* translateWithGoogle and translateWithLibre, from fetch to return or throw.
ProviderSettles(provider, o) ==
    LET unavailable == IF provider = "google" THEN GoogleUnavailable ELSE LibreUnavailable
        body == ProviderBody(o)
    IN CASE o.mode = "no_response" -> Settled(unavailable)
         [] o.mode = "timeout" -> Settled(TimeoutError)
         [] OTHER ->
              IF ~OkStatus(o.status)
              THEN Settled(IF provider = "google" THEN GoogleHttpError(o.status, body)
                           ELSE LibreHttpError(o.status, body))
              ELSE IF ~body.readable \/ body.null THEN Settled(unavailable)
              ELSE IF MissingText(body) THEN Settled(InvalidResponse(provider))
              ELSE SettledOk

\* extractLyrics through makeRequest, from fetch to return or throw.
ExtractionSettles(o) ==
    CASE o.mode = "no_response" -> Settled(LyricsNetworkError(o.online))
      [] o.mode = "timeout" -> Settled(LyricsTimeout)
      [] OTHER ->
           LET r == ExtractLyricsSettles(o.status, ExtractionBody(o), o.online)
           IN IF r.ok THEN SettledOk ELSE Settled(r.error)

\* handleAxiosError of the backend client, for a response whose status is
\* outside 2xx: data?.message || data?.error || 'Unknown error'.
handleAxiosError(o) ==
    LET errorMessage == IF o.readable /\ ~o.null /\ o.message THEN BackendText
                        ELSE "Unknown error"
    IN CASE o.mode = "timeout" ->
              TranslationError("Translation timeout. Please try again", "TIMEOUT", 0)
         [] o.mode = "no_response" ->
              TranslationError(IF o.online
                               THEN "Network error. Please check your connection"
                               ELSE "No internet connection. Please check your network",
                               "NETWORK_ERROR", 0)
         [] o.status = 400 -> TranslationError(errorMessage, "INVALID_REQUEST", 400)
         [] o.status = 403 ->
              TranslationError("Translation quota exceeded or invalid API key",
                               "QUOTA_EXCEEDED", 403)
         [] o.status = 404 ->
              TranslationError("Translation service not found", "SERVICE_NOT_FOUND", 404)
         [] o.status = 429 ->
              TranslationError("Translation rate limit exceeded. Please try again later",
                               "RATE_LIMITED", 429)
         [] o.status = 500 ->
              TranslationError("Translation server error. Please try again later",
                               "SERVER_ERROR", 500)
         [] OTHER -> TranslationError(errorMessage, "HTTP_ERROR", o.status)

\* translate of the backend client, from client.post to the envelope: axios
\* rejects every status outside 2xx through handleAxiosError; a 2xx body
\* that is null makes data.success raise a TypeError (TRANSLATION_ERROR),
\* one without a translated text is TRANSLATION_EMPTY.
BackendSettles(o) ==
    IF o.mode # "response" \/ ~OkStatus(o.status) THEN Settled(handleAxiosError(o))
    ELSE IF o.readable /\ o.null
    THEN Settled(TranslationError("Translation failed", "TRANSLATION_ERROR", 0))
    ELSE IF ~(o.readable /\ o.content)
    THEN Settled(TranslationError("Translation service returned empty result",
                                  "TRANSLATION_EMPTY", 0))
    ELSE SettledOk

ClientSettles(client, o) ==
    CASE client \in {"google", "libretranslate"} -> ProviderSettles(client, o)
      [] client = "extraction" -> ExtractionSettles(o)
      [] client = "backend" -> BackendSettles(o)

InitClassify ==
    /\ cClient \in Clients
    /\ cOutcome \in Outcomes
    /\ cResult = ClassPending
    /\ NoValidate
    /\ NoSplit
    /\ NoTranslate
    /\ NoRetry
    /\ NoForm
    /\ NoOthers

\* The call settles and the client returns or raises.
Classify ==
    /\ ~cResult.done
    /\ cResult' = ClientSettles(cClient, cOutcome)
    /\ UNCHANGED <<cClient, cOutcome, notClassVars>>

SpecClassify == InitClassify /\ [][Classify]_vars

----------------------------------------------------------------------------
(* Claims about the classification of failures, checked under SpecClassify *)

\* C18 as stated: every client classifies every response with a 5xx status
\* as SERVER_ERROR.
C18_ServerErrorFor5xx ==
    (cResult.done /\ cOutcome.mode = "response" /\ cOutcome.status >= 500)
        => (~cResult.ok /\ cResult.error.type = "SERVER_ERROR")

\* C19 as stated: every client classifies a 429 response as RATE_LIMITED
\* and a 403 response as QUOTA_EXCEEDED.
C19_RateAndQuotaKinds ==
    (cResult.done /\ cOutcome.mode = "response")
        => /\ cOutcome.status = 429 => (~cResult.ok /\ cResult.error.type = "RATE_LIMITED")
           /\ cOutcome.status = 403 => (~cResult.ok /\ cResult.error.type = "QUOTA_EXCEEDED")

\* C20 as stated: a provider or extraction call fails with NETWORK_ERROR
\* exactly when the request got no response.
C20_NetworkErrorIffNoResponse ==
    (cResult.done /\ cClient \in {"google", "libretranslate", "extraction"})
        => ((~cResult.ok /\ cResult.error.type = "NETWORK_ERROR")
                <=> cOutcome.mode = "no_response")

----------------------------------------------------------------------------
(* Time bound of the provider calls, checked under SpecFairTimer *)

\* translate with the scheduling the runtime guarantees: a timer that stays
\* armed fires, and the continuation that starts the next provider call
\* runs.  The network is under no obligation: a response or a body may
\* never arrive.
SpecFairTimer ==
    /\ InitTranslate
    /\ [][Next]_vars
    /\ WF_vars(GoogleTimeout)
    /\ WF_vars(LibreTimeout)
    /\ WF_vars(GoogleStart)
    /\ WF_vars(LibreStart)

\* C21 as stated: with fair timers, every provider call in flight
\* eventually completes, at whatever stage it is.
C21_CallsComplete == (inflight # {}) ~> (inflight = {})

----------------------------------------------------------------------------
(* Claims about the envelope of translate, checked under Spec *)

\* C22 as stated: in every success envelope returned by translate,
\* data.translatedText is a non-empty string.
C22_TranslationNotEmpty ==
    (pc = "done" /\ IsSuccessEnvelope(result)) => result.data.translatedText # <<>>

----------------------------------------------------------------------------
(* Two translate calls in flight on the one exported TranslateApi instance *)

\* The local variables of one invocation of translate: its arguments,
\* chunks, translatedChunks, detectedLang, usedProvider, the position in the
\* loop and the value it returns.
Frame(pcv, text, target, source, cs, i, translated, detected, provider, res) ==
    [pc |-> pcv, text |-> text, target |-> target, source |-> source,
     chunks |-> cs, idx |-> i, translatedChunks |-> translated,
     detectedLang |-> detected, usedProvider |-> provider, result |-> res]

NoFrame ==
    Frame("idle", JSUndefined, LangUndefined, LangUndefined, <<>>, 0, <<>>, "", "",
          NoResult)

\* translate(text, target, source) up to its first await: validation,
\* chunking and the declarations of the locals.
StartFrame(text, target, source) ==
    LET kind == validateTranslationRequest(text, target)
    IN IF kind # "ok"
       THEN Frame("done", text, target, source, <<>>, 0, <<>>, "", "",
                  CatchError(ValidationError(kind)).result)
       ELSE LET cs == splitTextIntoChunks(text.s, DefaultMaxChunkSize)
            IN IF cs # <<>>
               THEN Frame("google", text, target, source, cs, 1, <<>>,
                          SourceOrAuto(source), "", NoResult)
               ELSE Frame("done", text, target, source, cs, 1, <<>>,
                          SourceOrAuto(source), "",
                          SuccessEnvelope(text.s, <<>>, SourceOrAuto(source),
                                          target, "", cs))

\* How a provider call settles: it raises, or it returns the translation of
\* a body.
ProviderFailed == [ok |-> FALSE, body |-> BodyUnreadable]
ProviderReturned(body) == [ok |-> TRUE, body |-> body]
ProviderOutcomes ==
    {ProviderFailed} \cup
    {ProviderReturned(BodyJson(t, d, FALSE)) : t \in RespTexts, d \in {"", "es"}}

\* The provider call of the frame sends a request: translateWithGoogle
\* raises before its fetch without an API key, and both clients raise in
\* getLanguageCode on a target that is no string.
SendsRequest(frame, key) ==
    /\ frame.target.t = "string"
    /\ frame.pc = "google" => key

\* Lines 324-330 and the return of line 332 in one frame.
FrameTranslated(frame, chunkResult, provider) ==
    LET translated == Append(frame.translatedChunks, chunkResult.translatedText)
        detected == IF frame.detectedLang = "auto" /\ chunkResult.detectedLanguage # ""
                    THEN chunkResult.detectedLanguage
                    ELSE frame.detectedLang
    IN IF frame.idx + 1 <= Len(frame.chunks)
       THEN [frame EXCEPT !.pc = "google", !.idx = frame.idx + 1,
                          !.translatedChunks = translated,
                          !.detectedLang = detected, !.usedProvider = provider]
       ELSE [frame EXCEPT !.pc = "done", !.idx = frame.idx + 1,
                          !.translatedChunks = translated,
                          !.detectedLang = detected, !.usedProvider = provider,
                          !.result = SuccessEnvelope(frame.text.s, translated,
                                                     detected, frame.target,
                                                     provider, frame.chunks)]

\* One provider call of the loop body settles in the frame: lines 305-322.
FrameStep(frame, key, outcome) ==
    IF frame.pc = "google"
    THEN IF SendsRequest(frame, key) /\ outcome.ok
         THEN FrameTranslated(frame,
                              ChunkResult(outcome.body, SourceOrAuto(frame.source),
                                          "google"),
                              "google")
         ELSE [frame EXCEPT !.pc = "libre"]
    ELSE IF SendsRequest(frame, key) /\ outcome.ok
         THEN FrameTranslated(frame,
                              ChunkResult(outcome.body, SourceOrAuto(frame.source),
                                          "libretranslate"),
                              LibreTag)
         ELSE [frame EXCEPT !.pc = "done",
                            !.result = CatchError(AllServicesFailed).result]

\* The request run on its own: the frame after the provider outcomes of
\* the sequence were delivered to it one after the other.
RECURSIVE RunAlone(_, _, _)
RunAlone(frame, key, outcomes) ==
    IF frame.pc = "done" THEN frame
    ELSE IF ~SendsRequest(frame, key)
    THEN RunAlone(FrameStep(frame, key, ProviderFailed), key, outcomes)
    ELSE IF outcomes = <<>> THEN frame
    ELSE RunAlone(FrameStep(frame, key, Head(outcomes)), key, Tail(outcomes))

Requests == 1..2
OtherRequest(r) == 3 - r

PairTexts == {JSString(<<>>), JSString(OneChunkText), JSString(TwoChunkText)}
PairTargets == {LangString("Sinhala")}
PairSources == {LangUndefined, LangString("en")}

\* Mutant: the locals are fields of the instance, which both calls use.
LocalsOnInstance(frames, r) == frames[1]

\* The variables one invocation reads and writes: declared with const and
\* let in the body of translate, they belong to the invocation.
Locals(frames, r) == frames[r]

Running(frame) == frame.pc \in {"google", "libre"}

InitPair ==
    /\ pKey \in BOOLEAN
    /\ pReq = [r \in Requests |-> NoFrame]
    /\ pSeen = [r \in Requests |-> <<>>]
    /\ pOverlap = FALSE
    /\ NoValidate
    /\ NoSplit
    /\ NoTranslate
    /\ NoRetry
    /\ NoForm
    /\ NoClass
    /\ NoUrl
    /\ NoLang
    /\ NoAdv
    /\ NoRed

\* A caller invokes translate on the instance.
PairTranslate(r) ==
    /\ pReq[r].pc = "idle"
    /\ \E text \in PairTexts, target \in PairTargets, source \in PairSources :
          pReq' = [pReq EXCEPT ![r] = StartFrame(text, target, source)]
    /\ UNCHANGED <<pKey, pSeen, pOverlap, notPairVars>>

\* The provider call one invocation awaits settles, and the invocation runs
\* up to its next await or its return.
PairSettle(r) ==
    /\ Running(Locals(pReq, r))
    /\ IF SendsRequest(Locals(pReq, r), pKey)
       THEN \E outcome \in ProviderOutcomes :
               /\ pReq' = [pReq EXCEPT ![r] = FrameStep(Locals(pReq, r), pKey, outcome)]
               /\ pSeen' = [pSeen EXCEPT ![r] = Append(pSeen[r], outcome)]
       ELSE /\ pReq' = [pReq EXCEPT ![r] = FrameStep(Locals(pReq, r), pKey, ProviderFailed)]
            /\ UNCHANGED pSeen
    /\ pOverlap' = (pOverlap \/ Running(pReq[OtherRequest(r)]))
    /\ UNCHANGED <<pKey, notPairVars>>

NextPair == \E r \in Requests : PairTranslate(r) \/ PairSettle(r)

SpecPair == InitPair /\ [][NextPair]_vars

(* Claims about concurrent requests, checked under SpecPair *)

\* C23: whatever the interleaving of two translate calls on the shared
\* instance, the envelope each call returns is the envelope the same request
\* returns when it runs alone and receives the same provider outcomes.
C23_RequestsIndependent ==
    \A r \in Requests :
        pReq[r].pc = "done" =>
            pReq[r].result =
                RunAlone(StartFrame(pReq[r].text, pReq[r].target, pReq[r].source),
                         pKey, pSeen[r]).result

\* Both calls returned success envelopes of two chunks with different
\* texts, languages and provider tags, after their provider calls were
\* interleaved.
C23_Witness ==
    /\ pOverlap
    /\ \A r \in Requests :
          /\ pReq[r].pc = "done"
          /\ IsSuccessEnvelope(pReq[r].result)
          /\ pReq[r].result.data.chunkCount = 2
    /\ pReq[1].result.data.translatedText # pReq[2].result.data.translatedText
    /\ pReq[1].result.data.sourceLanguage # pReq[2].result.data.sourceLanguage
    /\ pReq[1].result.data.provider # pReq[2].result.data.provider

----------------------------------------------------------------------------
(* extractLyrics applied to one URL, up to the request it sends *)

MaxUrlTokens == 5

UrlHeads == {<<>>, <<"https://">>, <<"https://", "www.">>, <<"www.">>}
UrlTokens == {"youtube.com/watch?", "v=", "youtu.be/", "ID11", "ID11b", "ID10"}
UrlInputs == {h \o t : h \in UrlHeads, t \in StringsUpTo(UrlTokens, MaxUrlTokens)}

UrlPending ==
    [done |-> FALSE, sent |-> FALSE, videoId |-> "", error |-> LyricsApiError("", "", 0)]

InitUrl ==
    /\ uUrl \in UrlInputs
    /\ uResult = UrlPending
    /\ NoValidate
    /\ NoSplit
    /\ NoTranslate
    /\ NoRetry
    /\ NoForm
    /\ NoClass
    /\ NoPair
    /\ NoLang
    /\ NoAdv
    /\ NoRed

ExtractLyricsCall ==
    /\ ~uResult.done
    /\ uResult' = ExtractLyricsRequest(uUrl)
    /\ UNCHANGED <<uUrl, notUrlVars>>

SpecUrl == InitUrl /\ [][ExtractLyricsCall]_vars

(* Claims about the URL given to extractLyrics, checked under SpecUrl *)

\* The ids captured by the patterns of validateYouTubeUrl that match the URL.
ValidatedIds(url) ==
    LET r == IF Len(url) >= 2 /\ url[2] = "www." THEN UrlFrom(url, 3)
             ELSE UrlFrom(url, 2)
    IN (IF Len(r) >= 3 /\ r[1] = "youtube.com/watch?" /\ r[2] = "v=" /\ r[3] \in VideoIds
        THEN {r[3]} ELSE {})
       \cup
       (IF Len(r) >= 2 /\ r[1] \in ShortPrefixes /\ r[2] \in VideoIds
        THEN {r[2]} ELSE {})
       \cup
       (IF Len(r) >= 3 /\ SecondPatternAt(r, 1) THEN {SecondPatternId(r, 1)} ELSE {})

\* C24 as stated: a URL that does not match the video URL pattern fails with
\* INVALID_URL and no request is sent; for a URL that matches, the video id
\* of the request is the id the pattern matched in the URL.
C24_IdSentIsIdMatched ==
    uResult.done =>
        IF validateYouTubeUrl(uUrl)
        THEN uResult.sent /\ uResult.videoId \in ValidatedIds(uUrl)
        ELSE ~uResult.sent /\ uResult.error.type = "INVALID_URL"

----------------------------------------------------------------------------
(* Claims about the kinds of the failures, checked under SpecClassify *)

\* The kinds of the error taxonomy.
ErrorTaxonomy ==
    {"MISSING_TEXT", "EMPTY_TEXT", "TEXT_TOO_LONG", "MISSING_TARGET_LANGUAGE",
     "INVALID_URL", "VIDEO_NOT_FOUND", "NO_LYRICS_FOUND",
     "TIMEOUT", "NETWORK_ERROR", "RATE_LIMITED", "SERVER_ERROR", "SERVICE_UNAVAILABLE",
     "QUOTA_EXCEEDED", "API_KEY_MISSING", "INVALID_RESPONSE", "TRANSLATION_EMPTY",
     "GOOGLE_API_ERROR", "LIBRE_API_ERROR", "HTTP_ERROR",
     "ALL_SERVICES_FAILED"}

\* C25 as stated: every failure raised by a provider client or by the
\* extraction client carries a kind of the error taxonomy.
C25_FailuresInTaxonomy ==
    (cResult.done /\ ~cResult.ok /\ cClient \in {"google", "libretranslate", "extraction"})
        => cResult.error.type \in ErrorTaxonomy

----------------------------------------------------------------------------
(* getLanguageCode applied to one string *)

MaxLangLen == 2

LangChars == {"s", "S", "i", "I", "e", "E", "n", "N"}
LangNames ==
    {<<"S", "i", "n", "h", "a", "l", "a">>, <<"S", "I", "N", "H", "A", "L", "A">>,
     <<"s", "i", "n", "h", "a", "l", "a">>, <<"T", "a", "m", "i", "l">>,
     <<"K", "l", "i", "n", "g", "o", "n">>,
     <<"c", "o", "n", "s", "t", "r", "u", "c", "t", "o", "r">>,
     <<"C", "o", "n", "s", "t", "r", "u", "c", "t", "o", "r">>,
     <<"t", "o", "S", "t", "r", "i", "n", "g">>}
LangInputs == StringsUpTo(LangChars, MaxLangLen) \cup LangNames

CodePending == [t |-> "pending", s |-> <<>>]

InitLang ==
    /\ gLanguage \in LangInputs
    /\ gCode = CodePending
    /\ NoValidate
    /\ NoSplit
    /\ NoTranslate
    /\ NoRetry
    /\ NoForm
    /\ NoClass
    /\ NoPair
    /\ NoUrl
    /\ NoAdv
    /\ NoRed

GetLanguageCodeCall ==
    /\ gCode = CodePending
    /\ gCode' = getLanguageCode(gLanguage)
    /\ UNCHANGED <<gLanguage, notLangVars>>

SpecLang == InitLang /\ [][GetLanguageCodeCall]_vars

(* Claims about getLanguageCode, checked under SpecLang *)

\* C26 as stated: for every string, getLanguageCode returns the canonical
\* code when the lower-cased string is a name or a code of the table, and
\* the lower-cased string itself otherwise.
C26_CaseInsensitiveAndTotal ==
    gCode # CodePending =>
        LET lower == ToLowerCase(gLanguage)
        IN /\ gCode.t = "string"
           /\ gCode.s = IF lower \in DOMAIN langMap THEN langMap[lower] ELSE lower

----------------------------------------------------------------------------
(* TranslateApi.translateAdvanced of src/src/App.jsx: one request, with   *)
(* each provider call settling in one step                                *)

AdvancedTexts ==
    {JSString(<<>>), JSString(OneChunkText), JSString(TwoChunkText),
     JSString(ThreeChunkText)}

AdvancedEvent(i, provider, ev) == [chunk |-> i, provider |-> provider, ev |-> ev]

\* Mutant: the catch of the backend call goes to LibreTranslate at once.
FallbackSkipsGoogle(provider) == "libretranslate"

\* The call made in the catch block of a provider call: translateWithGoogle
\* after the backend, translateWithLibre after Google.
FallbackOf(provider) ==
    IF provider = "backend" THEN "google" ELSE "libretranslate"

InitAdvanced ==
    /\ aKey \in BOOLEAN
    /\ aPc = "idle"
    /\ aChunks = 0 /\ aIdx = 0
    /\ aLog = <<>>
    /\ aResult = NoResult
    /\ NoValidate
    /\ NoSplit
    /\ NoTranslate
    /\ NoRetry
    /\ NoForm
    /\ NoClass
    /\ NoPair
    /\ NoUrl
    /\ NoLang
    /\ NoRed

\* translateAdvanced up to its first await: validation, chunking and the
\* backend call for the first chunk.
TranslateAdvancedCall ==
    /\ aPc = "idle"
    /\ \E text \in AdvancedTexts :
         LET kind == validateTranslationRequest(text, LangString("si"))
         IN IF kind # "ok"
            THEN /\ aPc' = "done"
                 /\ aResult' = FailureEnvelope(ValidationError(kind))
                 /\ UNCHANGED <<aChunks, aIdx, aLog>>
            ELSE /\ aChunks' = Len(splitTextIntoChunks(text.s, DefaultMaxChunkSize))
                 /\ aIdx' = 1
                 /\ aPc' = "backend"
                 /\ aLog' = <<AdvancedEvent(1, "backend", "call")>>
                 /\ UNCHANGED aResult
    /\ UNCHANGED <<aKey, valVars, splitVars, trVars, retryVars, formVars, classVars,
                   pairVars, urlVars, langVars, redVars>>

\* The provider call in flight settles.  The backend client returns an
\* envelope, which is a failure when its success field is false; Google
\* raises at once without an API key.  After a failure the next provider is
\* called, or ALL_SERVICES_FAILED ends the request; after a success the
\* backend is called for the next chunk, or the envelope is returned.
AdvancedSettles ==
    /\ aPc \in {"backend", "google", "libretranslate"}
    /\ \E ok \in (IF aPc = "google" /\ ~aKey THEN {FALSE} ELSE BOOLEAN) :
         IF ok
         THEN IF aIdx + 1 <= aChunks
              THEN /\ aLog' = aLog \o <<AdvancedEvent(aIdx, aPc, "ok"),
                                       AdvancedEvent(aIdx + 1, "backend", "call")>>
                   /\ aIdx' = aIdx + 1
                   /\ aPc' = "backend"
                   /\ UNCHANGED aResult
              ELSE /\ aLog' = Append(aLog, AdvancedEvent(aIdx, aPc, "ok"))
                   /\ aIdx' = aIdx + 1
                   /\ aPc' = "done"
                   /\ aResult' = [success |-> TRUE]
         ELSE IF aPc = "libretranslate"
              THEN /\ aLog' = Append(aLog, AdvancedEvent(aIdx, aPc, "fail"))
                   /\ aPc' = "done"
                   /\ aResult' = FailureEnvelope(AllServicesFailed)
                   /\ UNCHANGED aIdx
              ELSE /\ aLog' = aLog \o <<AdvancedEvent(aIdx, aPc, "fail"),
                                       AdvancedEvent(aIdx, FallbackOf(aPc), "call")>>
                   /\ aPc' = FallbackOf(aPc)
                   /\ UNCHANGED <<aIdx, aResult>>
    /\ UNCHANGED <<aKey, aChunks, valVars, splitVars, trVars, retryVars, formVars,
                   classVars, pairVars, urlVars, langVars, redVars>>

\* Either client serves one request: translate of translateApi.js or
\* translateAdvanced of App.jsx.
InitOrder ==
    \/ InitTranslate
    \/ InitAdvanced

NextOrder == Next \/ TranslateAdvancedCall \/ AdvancedSettles

SpecOrder == InitOrder /\ [][NextOrder]_vars

(* Claims about the order of the provider calls, checked under SpecOrder *)

PositionIn(order, provider) == CHOOSE j \in 1..Len(order) : order[j] = provider

\* In the history every call of the first provider for a chunk is the first
\* event of the chunk, every call of a later provider follows a failure of
\* the provider before it on the same chunk, no provider is called twice
\* for a chunk, and no call for a chunk follows a success on it.
OrderRespected(history, order) ==
    \A k \in 1..Len(history) :
        history[k].ev = "call" =>
            LET i == history[k].chunk
                j == PositionIn(order, history[k].provider)
            IN /\ \A m \in 1..(k - 1) :
                     history[m].chunk = i =>
                        /\ history[m].ev # "ok"
                        /\ ~(history[m].ev = "call"
                             /\ history[m].provider = history[k].provider)
               /\ IF j = 1
                  THEN \A m \in 1..(k - 1) : history[m].chunk # i
                  ELSE \E m \in 1..(k - 1) :
                          /\ history[m].chunk = i
                          /\ history[m].ev = "fail"
                          /\ history[m].provider = order[j - 1]

\* C27: for each chunk the providers are called in the fixed order, Google
\* then LibreTranslate in translate and backend, Google, LibreTranslate in
\* translateAdvanced, each at most once, a provider only after the one
\* before it failed on the chunk and none after a success on the chunk.
C27_ProvidersInOrder ==
    /\ OrderRespected(log, <<"google", "libretranslate">>)
    /\ OrderRespected(aLog, <<"backend", "google", "libretranslate">>)

\* translate returned a success whose first chunk Google translated and
\* whose second chunk LibreTranslate translated after Google had failed.
C27_Witness ==
    /\ pc = "done"
    /\ IsSuccessEnvelope(result)
    /\ \E k \in 1..Len(log) :
          log[k].chunk = 1 /\ log[k].provider = "google" /\ log[k].ev = "ok"
    /\ \E k, m \in 1..Len(log) :
          /\ k < m
          /\ log[k].chunk = 2 /\ log[k].provider = "google" /\ log[k].ev = "fail"
          /\ log[m].chunk = 2 /\ log[m].provider = "libretranslate" /\ log[m].ev = "ok"

----------------------------------------------------------------------------
(* Claims about the fields of the success envelope, checked under Spec *)

\* C28 as stated: with the source language "auto", once the first chunk is
\* translated the detected language of the request is the detection of the
\* first chunk: no later chunk changes it, and the success envelope carries
\* it as sourceLanguage.
C28_FirstDetectionWins ==
    [][(idx >= 2 /\ SourceOrAuto(rSource) = "auto") =>
            /\ detectedLang' = detectedLang
            /\ (pc' = "done" /\ IsSuccessEnvelope(result')) =>
                    result'.data.sourceLanguage = detectedLang]_vars

\* The provider that translated chunk i and the text it returned.
TranslatorOf(i) ==
    CHOOSE p \in {"google", "libretranslate"} : Logged(i, p, "ok")

TranslationOf(i) == TextFrom(i, TranslatorOf(i))

\* C29: in every success envelope the i-th piece of translatedText, the
\* pieces being separated by single spaces, is the translation of the i-th
\* chunk, and chunkCount is the number of chunks the chunker returned.
C29_JoinedInChunkOrder ==
    (pc = "done" /\ IsSuccessEnvelope(result)) =>
        /\ result.data.chunkCount = Len(reqChunks)
        /\ Len(PiecesOf(result.data.translatedText)) = Len(reqChunks)
        /\ \A i \in 1..Len(reqChunks) :
              PiecesOf(result.data.translatedText)[i] = TranslationOf(i)

\* A success with three chunks whose translations differ and come from
\* both providers.
C29_Witness ==
    /\ pc = "done"
    /\ IsSuccessEnvelope(result)
    /\ Len(reqChunks) = 3
    /\ TranslationOf(1) # <<>>
    /\ TranslationOf(2) # <<>>
    /\ TranslationOf(1) # TranslationOf(2)
    /\ TranslationOf(3) = TranslationOf(1)
    /\ TranslatorOf(1) # TranslatorOf(2)

\* C30: in every success envelope, provider is the tag of the provider that
\* translated the last chunk.
C30_ProviderOfLastChunk ==
    (pc = "done" /\ IsSuccessEnvelope(result) /\ Len(reqChunks) >= 1) =>
        result.data.provider = TranslatorOf(Len(reqChunks))

\* A success whose first chunk LibreTranslate translated after a failure of
\* Google and whose last chunk Google translated.
C30_Witness ==
    /\ pc = "done"
    /\ IsSuccessEnvelope(result)
    /\ Len(reqChunks) >= 2
    /\ FellBack(1)
    /\ Logged(Len(reqChunks), "google", "ok")
    /\ result.data.provider = "google"

----------------------------------------------------------------------------
(* Text Chunker: the sentence that alone exceeds the limit, under SpecSplit *)

LongSentence(sentence, maxChunkSize) ==
    StrLen(sentence) > maxChunkSize /\ Len(WordsOf(sentence)) >= 2

\* C31 as stated: a sentence of several words that alone exceeds
\* maxChunkSize is never emitted whole as one chunk, wherever it stands in
\* the text.
C31_LongSentenceSplit ==
    sDone =>
        LET sentences == SplitSentences(sText)
        IN \A k \in 1..Len(sentences) :
              LongSentence(sentences[k], sMax) =>
                 \A i \in 1..Len(sChunks) : sChunks[i] # sentences[k]

----------------------------------------------------------------------------
(* Claims about the provider errors inside translate, checked under Spec *)

\* C32: without a Google API key, every call of translateWithGoogle fails
\* with API_KEY_MISSING at once, without a timer or a request, and
\* translateWithLibre is then called for the same chunk; this holds for
\* every chunk of the request.
C32_KeyMissingFallsBack ==
    ~googleTranslateKey =>
        /\ \A c \in timers \cup inflight : c.provider # "google"
        /\ \A k \in 1..Len(log) :
              log[k].provider = "google" =>
                 /\ log[k].ev \in {"call", "fail"}
                 /\ log[k].ev = "call" =>
                       /\ k + 1 <= Len(log)
                       /\ log[k + 1] = Event(log[k].chunk, "google", "fail", <<>>)
        /\ \A i \in 1..Len(reqChunks) :
              /\ Logged(i, "google", "fail") =>
                    /\ googleError.type = "API_KEY_MISSING"
                    /\ \/ pc = "libre_start" /\ idx = i
                       \/ Logged(i, "libretranslate", "call")
              /\ Logged(i, "libretranslate", "call") => Logged(i, "google", "fail")

\* Without the key, a request of two chunks was translated by
\* LibreTranslate, Google having failed on each chunk.
C32_Witness ==
    /\ ~googleTranslateKey
    /\ pc = "done"
    /\ IsSuccessEnvelope(result)
    /\ Len(reqChunks) = 2
    /\ \A i \in 1..2 : Logged(i, "google", "fail") /\ Logged(i, "libretranslate", "ok")

----------------------------------------------------------------------------
(* Claims about the end of a withRetry call, checked under SpecRetry *)

\* The last entry of the history.
LastEvent == wLog[Len(wLog)]

\* Every one of the maxRetries attempts was made and failed.
GaveUp ==
    /\ wPc = "thrown"
    /\ wMaxRetries >= 1
    /\ Len(EventsOf("reject")) = wMaxRetries

\* C33: when withRetry gives up after maxRetries failed attempts, it raises
\* the error of the last attempt and has waited no delay after that attempt.
C33_LastErrorRaised ==
    GaveUp =>
        /\ LastEvent.ev = "reject"
        /\ LastEvent.attempt = wMaxRetries
        /\ wOutcome = [how |-> "thrown", v |-> OpError(LastEvent.type, wMaxRetries)]
        /\ Len(DelaysWaited) = wMaxRetries - 1

\* Three attempts failed with three different kinds; the third is raised.
C33_Witness ==
    /\ GaveUp
    /\ wMaxRetries = DefaultMaxRetries
    /\ EventsOf("reject")[1].type = "NETWORK_ERROR"
    /\ EventsOf("reject")[2].type = "TIMEOUT"
    /\ EventsOf("reject")[3].type = ""
    /\ wOutcome.v = OpError("", 3)

\* C34: when the operation resolves on attempt k, after k - 1 failures that
\* were retried, withRetry returns the value of that attempt, the operation
\* was invoked exactly k times, k - 1 delays were waited, and nothing follows.
C34_SuccessEndsTheCall ==
    \A i \in 1..Len(wLog) :
        wLog[i].ev = "resolve" =>
            /\ i = Len(wLog)
            /\ wPc = "returned"
            /\ wOutcome = [how |-> "returned",
                           v |-> OpError(wLog[i].type, wLog[i].attempt)]
            /\ Invocations = wLog[i].attempt
            /\ Len(EventsOf("reject")) = wLog[i].attempt - 1
            /\ Len(DelaysWaited) = wLog[i].attempt - 1

\* The third attempt resolved with a result after two transient failures.
C34_Witness ==
    /\ wPc = "returned"
    /\ wOutcome = [how |-> "returned", v |-> OpError("data", 3)]
    /\ Invocations = 3
    /\ \A i \in 1..2 : EventsOf("reject")[i].type \in TransientKinds

\* C35 as stated: withRetry invokes the operation at least once whatever
\* maxRetries is, and an error it raises is an error the operation raised.
C35_InvokedAtLeastOnce ==
    RetryFinished =>
        /\ Invocations >= 1
        /\ wOutcome.how = "thrown" =>
              \E i \in 1..Len(wLog) :
                  /\ wLog[i].ev = "reject"
                  /\ wOutcome.v = OpError(wLog[i].type, wLog[i].attempt)

\* C36: when the first invocation resolves with a {success:false} envelope,
\* whatever kind it carries, withRetry returns that envelope, and the
\* operation was invoked exactly once without any delay.
C36_FailureEnvelopeNotRetried ==
    (Len(wLog) >= 2 /\ wLog[2].ev = "resolve" /\ wLog[2].type \in FailureEnvelopes) =>
        /\ Len(wLog) = 2
        /\ wPc = "returned"
        /\ wOutcome = [how |-> "returned", v |-> OpError(wLog[2].type, 1)]
        /\ Invocations = 1
        /\ DelaysWaited = <<>>

\* The envelope of a TIMEOUT was returned after the first of three attempts.
C36_Witness ==
    /\ wMaxRetries = DefaultMaxRetries
    /\ wPc = "returned"
    /\ wOutcome = [how |-> "returned", v |-> OpError("envelope:TIMEOUT", 1)]
    /\ Invocations = 1

\* The kinds a failure envelope of translate may carry.
EnvelopeKinds == ValidationKinds \cup {"ALL_SERVICES_FAILED"}

\* C37: the failure envelope of translate carries one of the four kinds of
\* the validator or ALL_SERVICES_FAILED, and no status code: the kind and
\* the status of a provider's error never reach the caller.
C37_FiveEnvelopeKinds ==
    (pc = "done" /\ IsFailureEnvelope(result)) =>
        /\ result.error.type \in EnvelopeKinds
        /\ result.error.statusCode = 0
        /\ result.error.type = "ALL_SERVICES_FAILED" =>
              result.error.message = "All translation services are currently unavailable"

\* Google failed with QUOTA_EXCEEDED and status 403 on the second chunk,
\* LibreTranslate failed too, and the envelope shows neither.
C37_Witness ==
    /\ pc = "done"
    /\ IsFailureEnvelope(result)
    /\ idx = 2
    /\ googleError.type = "QUOTA_EXCEEDED"
    /\ googleError.statusCode = 403
    /\ Exhausted(2)

----------------------------------------------------------------------------
(* Timers, checked under SpecForm: one extraction call followed by the
   provider calls of translate *)

\* The provider call translate is waiting on, if any.
PendingFetch ==
    IF pc = "google_fetch" THEN {Call(idx, "google")}
    ELSE IF pc = "libre_fetch" THEN {Call(idx, "libretranslate")}
    ELSE {}

\* C38: a timer is armed only while the fetch of the call that armed it is
\* pending; once a provider call or the extraction call has a response, has
\* failed or has timed out, its timer is no longer armed.
C38_TimersCancelled ==
    /\ timers = PendingFetch
    /\ xTimer => xPc = "fetch"

\* The extraction call has returned, Google failed on the first chunk and
\* LibreTranslate translated the text: three calls, no timer left.
C38_Witness ==
    /\ fStep = "translating"
    /\ pc = "done"
    /\ result.success
    /\ \E i \in 1..Len(log) : log[i] = Event(1, "google", "fail", <<>>)
    /\ \E i \in 1..Len(log) : log[i].provider = "libretranslate" /\ log[i].ev = "ok"
    /\ timers = {}
    /\ ~xTimer

----------------------------------------------------------------------------
(* The reducer-driven LyricsForm (src/unnamed/part_000, lines 112-308) *)

MaxSubmits == 3

initialState == [loading |-> FALSE, error |-> <<>>, result |-> <<>>]

\* An action object; payload is <<>> when the action carries none.
ReducerAction(type, payload) == [type |-> type, payload |-> payload]

\* Mutant: START leaves the result and the error of the last submit.
reducerStartKeeps(state, action) ==
    CASE action.type = "START" -> [state EXCEPT !.loading = TRUE]
      [] action.type = "SUCCESS" ->
            [state EXCEPT !.loading = FALSE, !.result = action.payload]
      [] action.type = "ERROR" ->
            [state EXCEPT !.loading = FALSE, !.error = action.payload]
      [] OTHER -> state

reducer(state, action) ==
    CASE action.type = "START" ->
            [state EXCEPT !.loading = TRUE, !.error = <<>>, !.result = <<>>]
      [] action.type = "SUCCESS" ->
            [state EXCEPT !.loading = FALSE, !.result = action.payload]
      [] action.type = "ERROR" ->
            [state EXCEPT !.loading = FALSE, !.error = action.payload]
      [] OTHER -> state

\* dispatch(action): the reducer is applied and the action recorded.
Dispatch(action) ==
    /\ dState' = reducer(dState, action)
    /\ dLog' = Append(dLog, action.type)

ErrorPayload(type, message) == [type |-> type, message |-> message]

\* The payload the catch of handleSubmit builds from err.
CaughtPayload(err) ==
    ErrorPayload(IF err.type = "" THEN "UNKNOWN_ERROR" ELSE err.type,
                 IF err.message = "" THEN "Something went wrong." ELSE err.message)

NoLyricsPayload ==
    ErrorPayload("NO_LYRICS_FOUND", "No lyrics found. Please paste manually.")

\* What a read of a property of undefined raises.
ReducerTypeError == ErrorPayload("", "Cannot read properties of undefined")

\* Errors an awaited call may reject with: typed, untyped, without message.
RejectedWith ==
    {ErrorPayload("TIMEOUT", "Request timeout"),
     ErrorPayload("INVALID_URL", "Please enter a valid YouTube URL"),
     ErrorPayload("", "Failed to fetch"),
     ErrorPayload("", "")}

\* The error member of a failure envelope: an object or absent.
EnvelopeErrors ==
    {<<>>, <<ErrorPayload("NO_LYRICS_FOUND", "No lyrics found in this video")>>,
     <<ErrorPayload("ALL_SERVICES_FAILED", "All translation services are currently unavailable")>>}

\* How an awaited call settles: it rejects, or resolves with a value that
\* is undefined, a failure envelope, or a success envelope with or
\* without its data; text is data.lyrics or data.translatedText.
Settlement(how, success, error, data, text) ==
    [how |-> how, success |-> success, error |-> error, data |-> data, text |-> text]

FormSettlements ==
    {Settlement("rejected", FALSE, <<e>>, FALSE, "") : e \in RejectedWith}
    \cup {Settlement("undefined", FALSE, <<>>, FALSE, "")}
    \cup {Settlement("resolved", FALSE, e, FALSE, "") : e \in EnvelopeErrors}
    \cup {Settlement("resolved", TRUE, <<>>, FALSE, "")}
    \cup {Settlement("resolved", TRUE, <<>>, TRUE, t) : t \in {"", "la la"}}

FormLanguages == {"en", "si", "ta", "hi"}

InitReducer ==
    /\ dLanguage = "en"
    /\ dState = initialState
    /\ dPc = "idle"
    /\ dLyrics = <<>>
    /\ dLog = <<>>
    /\ dCount = 0
    /\ NoValidate
    /\ NoSplit
    /\ NoTranslate
    /\ NoRetry
    /\ NoForm
    /\ NoClass
    /\ NoPair
    /\ NoUrl
    /\ NoLang
    /\ NoAdv

\* onChange of the language selector, which is never disabled.
SetLanguage ==
    /\ \E language \in FormLanguages \ {dLanguage} : dLanguage' = language
    /\ UNCHANGED <<dState, dPc, dLyrics, dLog, dCount>>
    /\ UNCHANGED <<valVars, splitVars, trVars, retryVars, formVars, classVars,
                   pairVars, urlVars, langVars, advVars>>

\* handleSubmit up to its first await; the button is disabled while
\* state.loading.
ReducerSubmit ==
    /\ ~dState.loading
    /\ dPc = "idle"
    /\ dCount < MaxSubmits
    /\ dState' = reducer(dState, ReducerAction("START", <<>>))
    /\ dLog' = <<"START">>
    /\ dPc' = "extracting"
    /\ dCount' = dCount + 1
    /\ UNCHANGED <<dLanguage, dLyrics>>
    /\ UNCHANGED <<valVars, splitVars, trVars, retryVars, formVars, classVars,
                   pairVars, urlVars, langVars, advVars>>

\* await extractLyrics(url) settles: lines 167-183 and the catch.
ExtractLyricsSettled ==
    /\ dPc = "extracting"
    /\ \E r \in FormSettlements :
        IF r.how = "rejected"
        THEN /\ Dispatch(ReducerAction("ERROR", <<CaughtPayload(r.error[1])>>))
             /\ dPc' = "idle" /\ UNCHANGED dLyrics
        ELSE IF r.how = "undefined"
        THEN /\ Dispatch(ReducerAction("ERROR", <<CaughtPayload(ReducerTypeError)>>))
             /\ dPc' = "idle" /\ UNCHANGED dLyrics
        ELSE IF ~r.success
        THEN /\ Dispatch(ReducerAction("ERROR", r.error))
             /\ dPc' = "idle" /\ UNCHANGED dLyrics
        ELSE IF ~r.data
        THEN /\ Dispatch(ReducerAction("ERROR", <<CaughtPayload(ReducerTypeError)>>))
             /\ dPc' = "idle" /\ UNCHANGED dLyrics
        ELSE IF r.text = ""
        THEN /\ Dispatch(ReducerAction("ERROR", <<NoLyricsPayload>>))
             /\ dPc' = "idle" /\ UNCHANGED dLyrics
        ELSE /\ dPc' = "translating"
             /\ dLyrics' = <<r.text>>
             /\ UNCHANGED <<dState, dLog>>
    /\ UNCHANGED <<dLanguage, dCount>>
    /\ UNCHANGED <<valVars, splitVars, trVars, retryVars, formVars, classVars,
                   pairVars, urlVars, langVars, advVars>>

\* await translate(lyrics, language) settles: lines 185-199 and the catch.
TranslateSettled ==
    /\ dPc = "translating"
    /\ \E r \in FormSettlements :
        IF r.how = "rejected"
        THEN Dispatch(ReducerAction("ERROR", <<CaughtPayload(r.error[1])>>))
        ELSE IF r.how = "undefined"
        THEN Dispatch(ReducerAction("ERROR", <<CaughtPayload(ReducerTypeError)>>))
        ELSE IF ~r.success
        THEN Dispatch(ReducerAction("ERROR", r.error))
        ELSE IF ~r.data
        THEN Dispatch(ReducerAction("ERROR", <<CaughtPayload(ReducerTypeError)>>))
        ELSE Dispatch(ReducerAction("SUCCESS",
                 <<[translatedLyrics |-> r.text, originalLyrics |-> dLyrics[1]]>>))
    /\ dPc' = "idle"
    /\ dLyrics' = <<>>
    /\ UNCHANGED <<dLanguage, dCount>>
    /\ UNCHANGED <<valVars, splitVars, trVars, retryVars, formVars, classVars,
                   pairVars, urlVars, langVars, advVars>>

NextReducer ==
    \/ SetLanguage
    \/ ReducerSubmit
    \/ ExtractLyricsSettled
    \/ TranslateSettled

SpecReducer == InitReducer /\ [][NextReducer]_vars

\* Action types the reducer has no case for.
UnknownActions ==
    {ReducerAction(type, payload) :
        type \in {"RESET", "start", ""}, payload \in {<<>>, <<NoLyricsPayload>>}}

\* C39: a submit dispatches START and then, when its handler ends, exactly
\* one of SUCCESS and ERROR; error and result are never both set; loading
\* is false when either is set; an action of unknown type leaves the
\* state as it is.
C39_ReducerForm ==
    /\ dLog = <<>> <=> dCount = 0
    /\ dLog # <<>> =>
          /\ dLog[1] = "START"
          /\ dPc \in {"extracting", "translating"} => dLog = <<"START">>
          /\ dPc = "idle" =>
                Len(dLog) = 2 /\ dLog[2] \in {"SUCCESS", "ERROR"}
    /\ ~(dState.error # <<>> /\ dState.result # <<>>)
    /\ (dState.error # <<>> \/ dState.result # <<>>) => ~dState.loading
    /\ \A action \in UnknownActions : reducer(dState, action) = dState

\* The second submit succeeded: START, then SUCCESS, and its result is
\* shown without an error.
C39_Witness ==
    /\ dCount >= 2
    /\ dPc = "idle"
    /\ dLog = <<"START", "SUCCESS">>
    /\ dState.result # <<>>
    /\ dState.error = <<>>
    /\ ~dState.loading

----------------------------------------------------------------------------
(* The end of a submit of the stateful LyricsForm, checked under
   SpecFairForm *)

\* The form with the scheduling the runtime guarantees: an armed timer
\* fires, and the continuations of handleSubmit and of translate run.  The
\* network is under no obligation: a response or a body may never arrive.
SpecFairForm ==
    /\ InitForm
    /\ [][NextForm]_vars
    /\ WF_vars(ExtractTimeout)
    /\ WF_vars(GoogleTimeout)
    /\ WF_vars(LibreTimeout)
    /\ WF_vars(GoogleStart)
    /\ WF_vars(LibreStart)
    /\ WF_vars(TranslationSettles)

\* handleSubmit has ended in one of its two final steps.
FormEnded ==
    /\ ~fLoading
    /\ \/ fStep = "completed" /\ fResult # <<>> /\ fError = <<>>
       \/ fStep = "error" /\ fError # <<>> /\ fResult = <<>>

\* The order of the steps: loading only while extracting or translating,
\* and translate called only with the lyrics of a successful extraction.
FormStepsInOrder ==
    /\ fLoading => fStep \in {"extracting", "translating"}
    /\ fStep = "extracting" => (fLoading /\ pc = "idle" /\ xPc \in {"fetch", "body"})
    /\ fStep = "translating" => (fLoading /\ pc # "idle" /\ xPc = "idle" /\ fLyrics # <<>>)
    /\ pc # "idle" => fStep = "translating"

\* C40 as stated: every submit that starts a request eventually ends with
\* loading false and step 'completed' (result set, no error) or 'error'
\* (error set, no result).
C40_SubmitEnds == fLoading ~> FormEnded

====
